---- MODULE Spec2Model ----
(***************************************************************************)
(* Fixed-width multi-limb integers (Uint256 / Int256 / Uint128 / Int128 /   *)
(* Uint64 / Int64). The limbs of the 256-bit types are LimbBits wide (the  *)
(* source uses 64-bit limbs), so u64 is 0..B-1 and u128 is 0..B2-1. The    *)
(* two-limb types take their limb width as a parameter: W32 bits for the   *)
(* u32 limbs of Uint64 / Int64, W64 = 2 * W32 bits for the u64 limbs of    *)
(* Uint128 / Int128, which the portable multiply splits into u32 halves.   *)
(* Every machine operation keeps its width relative to the limb.           *)
(***************************************************************************)
EXTENDS Integers, Sequences, FiniteSets, TLC

LimbBits == 2
\* the limb width of the digit loops when they are run on their own
LoopBits == 3

B == 2 ^ LimbBits            \* one limb: the range of u64
B2 == B * B                  \* two limbs: the range of u128
B4 == B2 * B2                \* four limbs: the range of a 256-bit value
MaxLimb == B - 1             \* u64::MAX
HalfLimb == B \div 2         \* 0x8000_0000_0000_0000
LimbVals == {0, 1, HalfLimb, MaxLimb}

\* ------------------------------------------------------------------------
\* machine-word primitives
\* ------------------------------------------------------------------------
RECURSIVE BitOr(_, _)
BitOr(x, y) ==
    IF x = 0 THEN y
    ELSE IF y = 0 THEN x
    ELSE (IF x % 2 = 1 \/ y % 2 = 1 THEN 1 ELSE 0) + 2 * BitOr(x \div 2, y \div 2)

BoolToInt(c) == IF c THEN 1 ELSE 0

\* u64::overflowing_add / carrying_add: (sum mod 2^64, carry out)
overflowing_add(x, y) == [v |-> (x + y) % B, c |-> (x + y) >= B]
carrying_add(x, y, c) == [v |-> (x + y + BoolToInt(c)) % B, c |-> (x + y + BoolToInt(c)) >= B]
\* u64::overflowing_sub / borrowing_sub: (difference mod 2^64, borrow out)
overflowing_sub(x, y) == [v |-> (x - y + B) % B, c |-> x < y]
borrowing_sub(x, y, c) == [v |-> (x - y - BoolToInt(c) + 2 * B) % B, c |-> x < y + BoolToInt(c)]
wrapping_add(x, y) == (x + y) % B
wrapping_mul(x, y) == (x * y) % B
\* u128::overflowing_add
overflowing_add128(x, y) == [v |-> (x + y) % B2, c |-> (x + y) >= B2]
\* u128::wrapping_sub
wrapping_sub128(x, y) == (x - y + B2) % B2

\* u64::leading_zeros and u128::leading_zeros
leading_zeros64(x) ==
    IF x = 0 THEN LimbBits
    ELSE CHOOSE n \in 0..(LimbBits - 1) : 2 ^ (LimbBits - 1 - n) <= x /\ x < 2 ^ (LimbBits - n)
leading_zeros128(x) ==
    IF x = 0 THEN 2 * LimbBits
    ELSE CHOOSE n \in 0..(2 * LimbBits - 1) :
             2 ^ (2 * LimbBits - 1 - n) <= x /\ x < 2 ^ (2 * LimbBits - n)

\* ------------------------------------------------------------------------
\* Uint256: four limbs, least significant first
\* ------------------------------------------------------------------------
Uint256(x0, x1, x2, x3) == [l0 |-> x0, l1 |-> x1, l2 |-> x2, l3 |-> x3]
ZERO == Uint256(0, 0, 0, 0)
Limbs256 == [l0 : LimbVals, l1 : LimbVals, l2 : LimbVals, l3 : LimbVals]

\* the value a limb record stands for
Val(x) == x.l0 + B * x.l1 + B2 * x.l2 + B2 * B * x.l3

is_zero(x) == x.l0 = 0 /\ x.l1 = 0 /\ x.l2 = 0 /\ x.l3 = 0

Uint256_add_nocarry(self, rhs) ==
    Uint256(wrapping_add(self.l0, rhs.l0), wrapping_add(self.l1, rhs.l1),
            wrapping_add(self.l2, rhs.l2), wrapping_add(self.l3, rhs.l3))

Uint256_add(self, rhs) ==
    LET r0 == overflowing_add(self.l0, rhs.l0)
        r1 == carrying_add(self.l1, rhs.l1, r0.c)
        r2 == carrying_add(self.l2, rhs.l2, r1.c)
        r3 == carrying_add(self.l3, rhs.l3, r2.c)
    IN Uint256(r0.v, r1.v, r2.v, r3.v)

Uint256_sub(self, rhs) ==
    LET r0 == overflowing_sub(self.l0, rhs.l0)
        r1 == borrowing_sub(self.l1, rhs.l1, r0.c)
        r2 == borrowing_sub(self.l2, rhs.l2, r1.c)
        r3 == borrowing_sub(self.l3, rhs.l3, r2.c)
    IN Uint256(r0.v, r1.v, r2.v, r3.v)

\* mul_adx with the u128 overflow flags of columns 1 and 2 dropped
mul_adx_dropped_overflow(self, rhs) ==
    LET p00 == self.l0 * rhs.l0
        r0 == p00 % B
        carry0 == p00 \div B
        col1 == (carry0 + self.l0 * rhs.l1 + self.l1 * rhs.l0) % B2
        r1 == col1 % B
        carry1 == col1 \div B
        col2 == (carry1 + self.l0 * rhs.l2 + self.l1 * rhs.l1 + self.l2 * rhs.l0) % B2
        r2 == col2 % B
        carry2 == col2 \div B
        r3 == wrapping_add(wrapping_add(wrapping_add(wrapping_add(carry2 % B,
                  wrapping_mul(self.l0, rhs.l3)), wrapping_mul(self.l1, rhs.l2)),
                  wrapping_mul(self.l2, rhs.l1)), wrapping_mul(self.l3, rhs.l0))
    IN Uint256(r0, r1, r2, r3)

\* the columns with the carry into the next column kept below 2^64: the
\* overflow flags of the u128 additions are not added in
mul_columns_flags_dropped(self, rhs) ==
    LET p00 == self.l0 * rhs.l0
        col1 == (p00 \div B + self.l0 * rhs.l1 + self.l1 * rhs.l0) % B2
        col2 == (col1 \div B + self.l0 * rhs.l2 + self.l1 * rhs.l1 + self.l2 * rhs.l0) % B2
    IN [r0 |-> p00 % B, r1 |-> col1 % B, r2 |-> col2 % B,
        r3 |-> wrapping_add(wrapping_add(wrapping_add(wrapping_add((col2 \div B) % B,
                  wrapping_mul(self.l0, rhs.l3)), wrapping_mul(self.l1, rhs.l2)),
                  wrapping_mul(self.l2, rhs.l1)), wrapping_mul(self.l3, rhs.l0)),
        carry0 |-> p00 \div B, carry1 |-> col1 \div B, carry2 |-> col2 \div B]

\* the four columns of mul_adx / mul_portable: the limb each one leaves and
\* the carry it passes on
mul_columns(self, rhs) ==
    LET a0 == self.l0  a1 == self.l1  a2 == self.l2  a3 == self.l3
        b0 == rhs.l0   b1 == rhs.l1   b2 == rhs.l2   b3 == rhs.l3
        \* Column 0
        p00 == a0 * b0
        r0 == p00 % B
        carry0 == p00 \div B
        \* Column 1
        p01 == a0 * b1
        p10 == a1 * b0
        s1a == overflowing_add128(carry0, p01)
        s1b == overflowing_add128(s1a.v, p10)
        col1 == s1b.v
        r1 == col1 % B
        carry1 == (col1 \div B) + (BoolToInt(s1a.c) + BoolToInt(s1b.c)) * B
        \* Column 2
        p02 == a0 * b2
        p11 == a1 * b1
        p20 == a2 * b0
        s2a == overflowing_add128(carry1, p02)
        s2b == overflowing_add128(s2a.v, p11)
        s2c == overflowing_add128(s2b.v, p20)
        col2 == s2c.v
        r2 == col2 % B
        carry2 == (col2 \div B) + (BoolToInt(s2a.c) + BoolToInt(s2b.c) + BoolToInt(s2c.c)) * B
        \* Column 3
        r3 == wrapping_add(wrapping_add(wrapping_add(wrapping_add(carry2 % B,
                  wrapping_mul(a0, b3)), wrapping_mul(a1, b2)),
                  wrapping_mul(a2, b1)), wrapping_mul(a3, b0))
    IN [r0 |-> r0, r1 |-> r1, r2 |-> r2, r3 |-> r3,
        carry0 |-> carry0, carry1 |-> carry1, carry2 |-> carry2]

\* Self { l0: r0, l1: r1, l2: r2, l3: r3 }
mul_result(c) == Uint256(c.r0, c.r1, c.r2, c.r3)

mul_adx(self, rhs) == mul_result(mul_columns(self, rhs))

Uint256_mul(self, rhs) == mul_adx(self, rhs)

\* optimal_u256_mul (x86_64): the instruction sequence of the asm block,
\* one definition per instruction that writes a register the result uses.
\* mulx leaves the flags alone; add / adc set CF; setc reads the CF of the
\* adc just before it.
optimal_u256_mul(a_, b_) ==
    LET a0 == a_.l0  a1 == a_.l1  a2 == a_.l2  a3 == a_.l3
        b0 == b_.l0  b1 == b_.l1  b2 == b_.l2  b3 == b_.l3
        \* Column 0: mulx t1, r0, [a]             t1:r0 = a0*b0
        r0 == (a0 * b0) % B
        t1_0 == (a0 * b0) \div B
        \* Column 1: mulx t2, t0, [a + 8]         t2:t0 = a1*b0
        i1 == overflowing_add(t1_0, (a1 * b0) % B)               \* add t1, t0
        t2_0 == carrying_add((a1 * b0) \div B, 0, i1.c)          \* adc t2, 0
        \* mulx t3, t0, [a]                       t3:t0 = a0*b1
        i2 == overflowing_add(i1.v, (a0 * b1) % B)               \* add t1, t0
        i3 == carrying_add(t2_0.v, (a0 * b1) \div B, i2.c)       \* adc t2, t3
        i4 == carrying_add(0, 0, i3.c)                           \* adc t4, 0
        r1 == i2.v                                               \* mov r1, t1
        \* Column 2: mulx t1, t0, [a + 8]         t1:t0 = a1*b1
        i5 == overflowing_add(i3.v, (a1 * b1) % B)               \* add t2, t0
        i6 == carrying_add(i4.v, (a1 * b1) \div B, i5.c)         \* adc t4, t1
        \* mulx t1, t0, [a + 16]                  t1:t0 = a2*b0
        i7 == overflowing_add(i5.v, (a2 * b0) % B)               \* add t2, t0
        i8 == carrying_add(i6.v, (a2 * b0) \div B, i7.c)         \* adc t4, t1
        \* mulx t3, t0, [a]                       t3:t0 = a0*b2
        i9 == overflowing_add(i7.v, (a0 * b2) % B)               \* add t2, t0
        i10 == carrying_add(i8.v, (a0 * b2) \div B, i9.c)        \* adc t4, t3
        t3 == BoolToInt(i10.c)                                   \* setc t3
        r2 == i9.v                                               \* mov r2, t2
        \* Column 3: imul rdx, [..] / add t4, rdx, four times
        c0 == wrapping_add(i10.v, wrapping_mul(b3, a0))
        c1 == wrapping_add(c0, wrapping_mul(b2, a1))
        c2 == wrapping_add(c1, wrapping_mul(b1, a2))
        c3 == wrapping_add(c2, wrapping_mul(b0, a3))
        r3 == wrapping_add(c3, t3)                               \* add t4, t3
    IN Uint256(r0, r1, r2, r3)

\* ------------------------------------------------------------------------
\* Ord for Uint256 (most significant limb first)
\* ------------------------------------------------------------------------
Uint256_lt(x, y) ==
    IF x.l3 # y.l3 THEN x.l3 < y.l3
    ELSE IF x.l2 # y.l2 THEN x.l2 < y.l2
    ELSE IF x.l1 # y.l1 THEN x.l1 < y.l1
    ELSE x.l0 < y.l0

\* ------------------------------------------------------------------------
\* Division helpers.  An operation either returns ("ok") or ends the
\* program: "panic_div_zero" (attempt to divide by zero), "panic_overflow"
\* (an arithmetic-overflow panic of a build with overflow checks) or
\* "trap_divide_error" (the x86 div instruction faulting).
\* x86 selects the target_arch = "x86_64" code, oc a build with overflow
\* checks (debug) rather than wrapping arithmetic (release).
\* ------------------------------------------------------------------------
Builds == [x86 : BOOLEAN, oc : BOOLEAN]

\* a zero divisor quietly giving (0, 0)
div_u128_by_u64_no_fault(n, d, x86) ==
    IF d = 0 THEN [st |-> "ok", q |-> 0, r |-> 0]
    ELSE [st |-> "ok", q |-> (n \div d) % B, r |-> (n % d) % B]

div_u128_by_u64(n, d, x86) ==
    IF x86
    THEN \* div {d} with rdx:rax = n: faults when d = 0 or the quotient needs more than 64 bits
         IF d = 0 \/ (n \div B) >= d
         THEN [st |-> "trap_divide_error", q |-> 0, r |-> 0]
         ELSE [st |-> "ok", q |-> n \div d, r |-> n % d]
    ELSE IF d = 0
         THEN [st |-> "panic_div_zero", q |-> 0, r |-> 0]
         ELSE [st |-> "ok", q |-> (n \div d) % B, r |-> (n % d) % B]

\* the result of a division: status, quotient, the dispatch path taken, the
\* number of limb divisions / quotient digits started, and one record per
\* quotient digit of the estimating paths
DivRes(st, q, path, steps, tr) ==
    [st |-> st, q |-> q, path |-> path, steps |-> steps, tr |-> tr]

\* one limb division of div_by_u64: the limb index, the remainder carried in
\* as the high word, the limb, and what div_u128_by_u64 returned
LimbStep(i, n_hi, limb, s) ==
    [i |-> i, n_hi |-> n_hi, limb |-> limb, q |-> s.q, r |-> s.r]

\* every limb divided on its own, no remainder carried
div_by_u64_no_carry(self, d, bld) ==
    LET s3 == div_u128_by_u64(self.l3, d, bld.x86)
        s2 == div_u128_by_u64(self.l2, d, bld.x86)
        s1 == div_u128_by_u64(self.l1, d, bld.x86)
        s0 == div_u128_by_u64(self.l0, d, bld.x86)
    IN IF s3.st # "ok" THEN DivRes(s3.st, ZERO, "u64", 1, <<LimbStep(3, 0, self.l3, s3)>>)
       ELSE DivRes("ok", Uint256(s0.q, s1.q, s2.q, s3.q), "u64", 4,
                   <<LimbStep(3, 0, self.l3, s3), LimbStep(2, 0, self.l2, s2),
                     LimbStep(1, 0, self.l1, s1), LimbStep(0, 0, self.l0, s0)>>)

div_by_u64(self, d, bld) ==
    LET s3 == div_u128_by_u64(self.l3, d, bld.x86)
        s2 == div_u128_by_u64(s3.r * B + self.l2, d, bld.x86)
        s1 == div_u128_by_u64(s2.r * B + self.l1, d, bld.x86)
        s0 == div_u128_by_u64(s1.r * B + self.l0, d, bld.x86)
        t3 == LimbStep(3, 0, self.l3, s3)
        t2 == LimbStep(2, s3.r, self.l2, s2)
        t1 == LimbStep(1, s2.r, self.l1, s1)
        t0 == LimbStep(0, s1.r, self.l0, s0)
    IN IF s3.st # "ok" THEN DivRes(s3.st, ZERO, "u64", 1, <<t3>>)
       ELSE IF s2.st # "ok" THEN DivRes(s2.st, ZERO, "u64", 2, <<t3, t2>>)
       ELSE IF s1.st # "ok" THEN DivRes(s1.st, ZERO, "u64", 3, <<t3, t2, t1>>)
       ELSE IF s0.st # "ok" THEN DivRes(s0.st, ZERO, "u64", 4, <<t3, t2, t1, t0>>)
       ELSE DivRes("ok", Uint256(s0.q, s1.q, s2.q, s3.q), "u64", 4, <<t3, t2, t1, t0>>)

\* The quotient-digit correction loop shared by the Knuth paths:
\*   loop { rhat = numer.wrapping_sub(qhat * d_hi); if rhat > u64::MAX break;
\*          if qhat * d_next <= (rhat << 64 | next) break; qhat -= 1 }
\* decs counts the decrements made so far; wrapped tells whether some
\* wrapping_sub went below zero and under whether qhat -= 1 ran at qhat = 0.
refine_exit(st, qhat, decs, wrapped, under) ==
    [st |-> st, qhat |-> qhat, decs |-> decs, wrapped |-> wrapped, under |-> under]
refine_seen(rf, wrapped, under) ==
    [rf EXCEPT !.wrapped = @ \/ wrapped, !.under = @ \/ under]

\* the loop on limbs of w bits (u64 is 0..2^w - 1, u128 is 0..2^(2w) - 1)
RECURSIVE refine_w(_, _, _, _, _, _, _, _)
refine_w(w, numer, qhat, d_hi, d_next, next, decs, oc) ==
    LET rhat == (numer - qhat * d_hi + 2 ^ (2 * w)) % 2 ^ (2 * w)
        wrapped == numer < qhat * d_hi
        left == qhat * d_next
        right == rhat * 2 ^ w + next
    IN IF rhat > 2 ^ w - 1 THEN refine_exit("ok", qhat, decs, wrapped, FALSE)
       ELSE IF left <= right THEN refine_exit("ok", qhat, decs, wrapped, FALSE)
       ELSE IF qhat = 0
            THEN IF oc THEN refine_exit("panic_overflow", 0, decs, wrapped, TRUE)
                 ELSE refine_seen(refine_w(w, numer, 2 ^ w - 1, d_hi, d_next, next,
                                           decs + 1, oc),
                                  wrapped, TRUE)
            ELSE refine_seen(refine_w(w, numer, qhat - 1, d_hi, d_next, next, decs + 1, oc),
                             wrapped, FALSE)

refine(numer, qhat, d_hi, d_next, next, decs, oc) ==
    refine_w(LimbBits, numer, qhat, d_hi, d_next, next, decs, oc)

\* the trial digit taken as u64::MAX whatever the window holds
estimate_w_max(w, r_hi, r_lo, d_hi) == 2 ^ w - 1

\* the trial digit: u64::MAX when the top limb is not below d_hi
estimate_w(w, r_hi, r_lo, d_hi) ==
    IF r_hi >= d_hi THEN 2 ^ w - 1 ELSE ((r_hi * 2 ^ w + r_lo) \div d_hi) % 2 ^ w
estimate(r_hi, r_lo, d_hi) == estimate_w(LimbBits, r_hi, r_lo, d_hi)

\* no normalization: the shift taken as 0 whatever the limb holds
lz_w_none(w, x) == 0

\* leading_zeros of a limb of w bits
lz_w(w, x) ==
    IF x = 0 THEN w
    ELSE CHOOSE n \in 0..(w - 1) : 2 ^ (w - 1 - n) <= x /\ x < 2 ^ (w - n)

\* one limb of a left shift by bits < w: limbs[i] << bits | limbs[i - 1] >> (w - bits),
\* the limbs as they are when bits = 0
limb_shl(w, limb, below, bits) ==
    IF bits = 0 THEN limb
    ELSE ((limb * 2 ^ bits) % 2 ^ w) + (below \div 2 ^ (w - bits))

\* the correction loop of div_large_divisor_64bit_quotient on limbs of w bits,
\* from the limbs it reads: the top three of the dividend x and of the
\* divisor d, shifted by the leading zeros of d.l3
first_digit_loop(w, x, d, shift, oc) ==
    refine_w(w,
             limb_shl(w, 0, x.l3, shift) * 2 ^ w + limb_shl(w, x.l3, x.l2, shift),
             estimate_w(w, limb_shl(w, 0, x.l3, shift), limb_shl(w, x.l3, x.l2, shift),
                        limb_shl(w, d.l3, d.l2, shift)),
             limb_shl(w, d.l3, d.l2, shift), limb_shl(w, d.l2, d.l1, shift),
             limb_shl(w, x.l2, x.l1, shift), 0, oc)

\* ------------------------------------------------------------------------
\* Shifts used for normalization.  A remainder window is [u64; 7], indexed
\* from 0.
\* ------------------------------------------------------------------------
LimbAt(x, i) == IF i = 0 THEN x.l0 ELSE IF i = 1 THEN x.l1 ELSE IF i = 2 THEN x.l2 ELSE x.l3
shl64(x, n) == (x * 2 ^ n) % B            \* u64 << n, n < 64
shr64(x, n) == x \div 2 ^ n               \* u64 >> n, n < 64

\* shl_wide keeping four limbs only: the bits leaving l3 are lost
shl_wide_four_limbs(self, n) ==
    [i \in 0..6 |-> IF i < 4 THEN ((Val(self) * 2 ^ n) \div B ^ i) % B ELSE 0]

shl_wide(self, n) ==
    IF n = 0
    THEN [i \in 0..6 |-> IF i < 4 THEN LimbAt(self, i) ELSE 0]
    ELSE LET full_limbs == n \div LimbBits
             bits == n % LimbBits
         IN IF bits = 0
            THEN [i \in 0..6 |->
                    IF i >= full_limbs /\ i - full_limbs < 4
                    THEN LimbAt(self, i - full_limbs) ELSE 0]
            ELSE [i \in 0..6 |->
                    IF i < full_limbs THEN 0
                    ELSE BitOr(IF i - full_limbs < 4
                               THEN shl64(LimbAt(self, i - full_limbs), bits) ELSE 0,
                               IF i > full_limbs /\ i - full_limbs - 1 < 4
                               THEN shr64(LimbAt(self, i - full_limbs - 1), LimbBits - bits)
                               ELSE 0)]

shl_u32(self, n) ==
    IF n = 0 THEN self
    ELSE IF n >= 4 * LimbBits THEN ZERO
    ELSE LET full_limbs == n \div LimbBits
             bits == n % LimbBits
             result == IF bits = 0
                       THEN [i \in 0..3 |->
                               IF i >= full_limbs THEN LimbAt(self, i - full_limbs) ELSE 0]
                       ELSE [i \in 0..3 |->
                               IF i < full_limbs THEN 0
                               ELSE BitOr(shl64(LimbAt(self, i - full_limbs), bits),
                                          IF i > full_limbs
                                          THEN shr64(LimbAt(self, i - full_limbs - 1),
                                                     LimbBits - bits)
                                          ELSE 0)]
         IN Uint256(result[0], result[1], result[2], result[3])

\* ------------------------------------------------------------------------
\* Multiply-and-subtract and add-back on the remainder window
\* ------------------------------------------------------------------------
\* for i in 0..n { prod = qhat * d_limbs[i] + borrow; rem[j+i] -= prod as u64;
\*                 borrow = (prod >> 64) + b }   then   rem[j+n] -= borrow as u64
\* ovf records a u128 overflow of qhat * d_limbs[i] + borrow, maxb the largest
\* running borrow.
\* the loop with the borrow of the limb subtraction counted twice
RECURSIVE sub_mul_loop_double_borrow(_, _, _, _, _, _, _, _, _)
sub_mul_loop_double_borrow(rem, j, d, qhat, i, n, borrow, ovf, maxb) ==
    IF i = n
    THEN IF j + n < 7
         THEN LET s == overflowing_sub(rem[j + n], borrow % B)
              IN [rem |-> [rem EXCEPT ![j + n] = s.v], borrow |-> s.c,
                  ovf |-> ovf, maxb |-> maxb]
         ELSE [rem |-> rem, borrow |-> borrow # 0, ovf |-> ovf, maxb |-> maxb]
    ELSE LET full == qhat * LimbAt(d, i) + borrow
             prod == full % B2
             s == overflowing_sub(rem[j + i], prod % B)
             nb == (prod \div B) + 2 * BoolToInt(s.c)
         IN sub_mul_loop_double_borrow([rem EXCEPT ![j + i] = s.v], j, d, qhat, i + 1, n, nb,
                                       ovf \/ full >= B2, IF nb > maxb THEN nb ELSE maxb)

RECURSIVE sub_mul_loop(_, _, _, _, _, _, _, _, _)
sub_mul_loop(rem, j, d, qhat, i, n, borrow, ovf, maxb) ==
    IF i = n
    THEN IF j + n < 7
         THEN LET s == overflowing_sub(rem[j + n], borrow % B)
              IN [rem |-> [rem EXCEPT ![j + n] = s.v], borrow |-> s.c,
                  ovf |-> ovf, maxb |-> maxb]
         ELSE [rem |-> rem, borrow |-> borrow # 0, ovf |-> ovf, maxb |-> maxb]
    ELSE IF j + i < 7
         THEN LET full == qhat * LimbAt(d, i) + borrow
                  prod == full % B2
                  s == overflowing_sub(rem[j + i], prod % B)
                  nb == (prod \div B) + BoolToInt(s.c)
              IN sub_mul_loop([rem EXCEPT ![j + i] = s.v], j, d, qhat, i + 1, n, nb,
                              ovf \/ full >= B2, IF nb > maxb THEN nb ELSE maxb)
         ELSE sub_mul_loop(rem, j, d, qhat, i + 1, n, borrow, ovf, maxb)

sub_mul_limbs(rem, j, d, qhat) == sub_mul_loop(rem, j, d, qhat, 0, 4, 0, FALSE, 0)
sub_mul_limbs_3(rem, j, d, qhat) == sub_mul_loop(rem, j, d, qhat, 0, 3, 0, FALSE, 0)

RECURSIVE add_back_loop(_, _, _, _, _, _)
add_back_loop(rem, j, d, i, n, carry) ==
    IF i = n
    THEN IF j + n < 7
         THEN [rem EXCEPT ![j + n] = wrapping_add(rem[j + n], BoolToInt(carry))]
         ELSE rem
    ELSE IF j + i < 7
         THEN LET s1 == overflowing_add(rem[j + i], LimbAt(d, i))
                  s2 == overflowing_add(s1.v, BoolToInt(carry))
              IN add_back_loop([rem EXCEPT ![j + i] = s2.v], j, d, i + 1, n, s1.c \/ s2.c)
         ELSE add_back_loop(rem, j, d, i + 1, n, carry)

\* an add-back that leaves the window as the subtraction left it
add_back_limbs_3_skipped(rem, j, d) == rem

add_back_limbs(rem, j, d) == add_back_loop(rem, j, d, 0, 4, FALSE)
add_back_limbs_3(rem, j, d) == add_back_loop(rem, j, d, 0, 3, FALSE)

\* ------------------------------------------------------------------------
\* Knuth Algorithm D.  One quotient digit over the window rem[j..j+n], for
\* a normalized divisor of n limbs: estimate, correct, multiply-and-subtract,
\* add back on borrow.
\* ------------------------------------------------------------------------
\* the value of the window rem[j..=j+n] of a digit
WinVal(rem, j, n) ==
    rem[j] + rem[j + 1] * B + rem[j + 2] * B ^ 2 + rem[j + 3] * B ^ 3
      + (IF n = 4 THEN rem[j + 4] * B ^ 4 ELSE 0)

\* the record of a digit: the trial digit, the digit the loop left, the
\* decrements, what the loop and the multiply-and-subtract met, the window
\* before (win) and after (out), the divisor (dn) and the digit kept (qhat)
DigitRec(j, qhat0, rf, borrow, ovf, maxb, win, dn) ==
    [j |-> j, qhat0 |-> qhat0, qloop |-> rf.qhat, decs |-> rf.decs,
     wrapped |-> rf.wrapped, under |-> rf.under, borrow |-> borrow,
     ovf |-> ovf, maxb |-> maxb, win |-> win, dn |-> dn, out |-> win, qhat |-> rf.qhat]

\* the record of a digit whose multiply-and-subtract is not part of it
DigitTr(qhat0, rf) == DigitRec(-1, qhat0, rf, FALSE, FALSE, 0, 0, 0)

\* a digit as it leaves quotient_digit
digit_done(st, qhat, rem, j, n, under, tr) ==
    [st |-> st, qhat |-> qhat, rem |-> rem,
     tr |-> [tr EXCEPT !.qhat = qhat, !.out = WinVal(rem, j, n), !.under = @ \/ under]]

\* add back on borrow: qhat -= 1 and the divisor returns to the window
digit_add_back(j, d_norm, n, oc, qhat0, rf, sm, win) ==
    LET tr == DigitRec(j, qhat0, rf, sm.borrow, sm.ovf, sm.maxb, win, Val(d_norm))
    IN IF oc /\ sm.ovf THEN digit_done("panic_overflow", 0, sm.rem, j, n, FALSE, tr)
       ELSE IF sm.borrow
            THEN IF rf.qhat = 0 /\ oc
                 THEN digit_done("panic_overflow", 0, sm.rem, j, n, TRUE, tr)
                 ELSE digit_done("ok", (rf.qhat - 1 + B) % B,
                                 IF n = 4 THEN add_back_limbs(sm.rem, j, d_norm)
                                 ELSE add_back_limbs_3(sm.rem, j, d_norm),
                                 j, n, rf.qhat = 0, tr)
            ELSE digit_done("ok", rf.qhat, sm.rem, j, n, FALSE, tr)

\* multiply-and-subtract with the corrected trial digit rf.qhat
digit_subtract(rem, j, d_norm, n, oc, qhat0, rf) ==
    IF rf.st # "ok"
    THEN [st |-> rf.st, qhat |-> 0, rem |-> rem,
          tr |-> DigitRec(j, qhat0, rf, FALSE, FALSE, 0, WinVal(rem, j, n), Val(d_norm))]
    ELSE digit_add_back(j, d_norm, n, oc, qhat0, rf,
                        IF n = 4 THEN sub_mul_limbs(rem, j, d_norm, rf.qhat)
                        ELSE sub_mul_limbs_3(rem, j, d_norm, rf.qhat),
                        WinVal(rem, j, n))

quotient_digit(rem, j, d_norm, n, oc) ==
    LET r_hi == rem[j + n]
        r_lo == rem[j + n - 1]
        d_hi == LimbAt(d_norm, n - 1)
        qhat0 == estimate(r_hi, r_lo, d_hi)
    IN digit_subtract(rem, j, d_norm, n, oc, qhat0,
                      refine(r_hi * B + r_lo, qhat0, d_hi, LimbAt(d_norm, n - 2),
                             rem[j + n - 2], 0, oc))

\* Self { l0: qhat, l1: 0, l2: 0, l3: 0 }
knuth64_quotient(dg) ==
    IF dg.st # "ok" THEN DivRes(dg.st, ZERO, "knuth64", 1, <<dg.tr>>)
    ELSE DivRes("ok", Uint256(dg.qhat, 0, 0, 0), "knuth64", 1, <<dg.tr>>)

\* the first lines of both Knuth paths: shift = leading zeros of the
\* divisor's top non-zero limb, d_norm = d.shl_u32(shift),
\* rem = self.shl_wide(shift); n is the number of limbs of the divisor
knuth_normalize(self, d, n, shift) ==
    [n |-> n, shift |-> shift, d_norm |-> shl_u32(d, shift), rem |-> shl_wide(self, shift)]

div_large_divisor_64bit_quotient(self, d, bld) ==
    LET shift == leading_zeros64(d.l3)
        d_norm == shl_u32(d, shift)
        rem == shl_wide(self, shift)
    IN knuth64_quotient(quotient_digit(rem, 0, d_norm, 4, bld.oc))

\* the two digits stored in the opposite limbs
knuth128_quotient_swapped(dg1, dg0) ==
    IF dg0.st # "ok" THEN DivRes(dg0.st, ZERO, "knuth128", 2, <<dg1.tr, dg0.tr>>)
    ELSE DivRes("ok", Uint256(dg1.qhat, dg0.qhat, 0, 0), "knuth128", 2, <<dg1.tr, dg0.tr>>)

\* Self { l0: q_lo, l1: q_hi, l2: 0, l3: 0 }
knuth128_quotient(dg1, dg0) ==
    IF dg0.st # "ok" THEN DivRes(dg0.st, ZERO, "knuth128", 2, <<dg1.tr, dg0.tr>>)
    ELSE DivRes("ok", Uint256(dg0.qhat, dg1.qhat, 0, 0), "knuth128", 2, <<dg1.tr, dg0.tr>>)

\* for j in (0..=1).rev(): the digit at j = 1 (dg1), then the digit at j = 0
knuth128_digits(rem, d_norm, oc, dg1) ==
    IF dg1.st # "ok" THEN DivRes(dg1.st, ZERO, "knuth128", 1, <<dg1.tr>>)
    ELSE knuth128_quotient(dg1, quotient_digit(dg1.rem, 0, d_norm, 3, oc))

knuth128_normalized(rem, d_norm, oc) ==
    knuth128_digits(rem, d_norm, oc, quotient_digit(rem, 1, d_norm, 3, oc))

div_large_divisor_128bit_quotient(self, d, bld) ==
    LET shift == leading_zeros64(d.l2)
    IN knuth128_normalized(shl_wide(self, shift), shl_u32(d, shift), bld.oc)

div_knuth(self, d, bld) ==
    IF Uint256_lt(self, d) THEN DivRes("ok", ZERO, "knuth_lt", 0, <<>>)
    ELSE IF d.l3 # 0 THEN div_large_divisor_64bit_quotient(self, d, bld)
    ELSE div_large_divisor_128bit_quotient(self, d, bld)

\* ------------------------------------------------------------------------
\* Two-limb divisor: 256-by-128 division of (hi : lo) by d, with hi < d
\* ------------------------------------------------------------------------
\* u128 >> n: an amount of 128 panics under overflow checks and is masked to
\* 0 (n & 127) without them
shr128(x, n, oc) ==
    IF n >= 2 * LimbBits
    THEN IF oc THEN [st |-> "panic_overflow", v |-> 0]
         ELSE [st |-> "ok", v |-> x \div 2 ^ (n % (2 * LimbBits))]
    ELSE [st |-> "ok", v |-> x \div 2 ^ n]
shl128(x, n) == (x * 2 ^ n) % B2

\* (q_hi << 64) | qhat2
u128_quotient(shift, qhat, rf1, qhat2, rf2) ==
    IF rf2.st # "ok"
    THEN [st |-> rf2.st, q |-> 0,
          tr |-> <<DigitTr(qhat, rf1), DigitTr(qhat2, rf2)>>, shift |-> shift]
    ELSE [st |-> "ok", q |-> rf1.qhat * B + rf2.qhat,
          tr |-> <<DigitTr(qhat, rf1), DigitTr(qhat2, rf2)>>, shift |-> shift]

\* the low digit: estimated from rem and refined against the low limb of n1
u128_low_digit(oc, shift, d_norm, n1, qhat, rf1, rem) ==
    LET d_hi == d_norm \div B
        d_lo == d_norm % B
        n_hi2 == rem \div B
        qhat2 == IF n_hi2 >= d_hi THEN MaxLimb ELSE (rem \div d_hi) % B
    IN u128_quotient(shift, qhat, rf1, qhat2,
                     refine(rem, qhat2, d_hi, d_lo, n1 % B, 0, oc))

\* rem = ((n2 << 64) | (n1 >> 64)).wrapping_sub(q_hi.wrapping_mul(d_norm))
u128_remainder(oc, shift, d_norm, n2, n1, qhat, rf1) ==
    IF rf1.st # "ok"
    THEN [st |-> rf1.st, q |-> 0, tr |-> <<DigitTr(qhat, rf1)>>, shift |-> shift]
    ELSE u128_low_digit(oc, shift, d_norm, n1, qhat, rf1,
                        wrapping_sub128(BitOr((n2 * B) % B2, n1 \div B),
                                        (rf1.qhat * d_norm) % B2))

\* the high digit: estimated from n2 and refined against the high limb of n1
u128_high_digit(oc, shift, d_norm, n2, n1) ==
    LET d_hi == d_norm \div B
        d_lo == d_norm % B
        n_hi == n2 \div B
        qhat == IF n_hi >= d_hi THEN MaxLimb ELSE (n2 \div d_hi) % B
    IN u128_remainder(oc, shift, d_norm, n2, n1, qhat,
                      refine(n2, qhat, d_hi, d_lo, n1 \div B, 0, oc))

\* n2 = (hi << shift) | (lo >> (128 - shift)), n1 = lo << shift
u128_shifted(hi, lo, d, oc, shift, los) ==
    IF los.st # "ok" THEN [st |-> los.st, q |-> 0, tr |-> <<>>, shift |-> shift]
    ELSE u128_high_digit(oc, shift, shl128(d, shift), BitOr(shl128(hi, shift), los.v),
                         shl128(lo, shift))

u128_normalize(hi, lo, d, oc, shift) ==
    u128_shifted(hi, lo, d, oc, shift, shr128(lo, 2 * LimbBits - shift, oc))

div_u256_by_u128(hi, lo, d, oc) ==
    IF hi = 0 THEN [st |-> "ok", q |-> lo \div d, tr |-> <<>>, shift |-> -1]
    ELSE u128_normalize(hi, lo, d, oc, leading_zeros128(d))

\* Self { l0: q_lo as u64, l1: (q_lo >> 64) as u64, l2: q_hi as u64, l3: (q_hi >> 64) as u64 }
u128_halves(q_hi, path, lo) ==
    IF lo.st # "ok" THEN DivRes(lo.st, ZERO, path, Len(lo.tr), lo.tr)
    ELSE DivRes("ok", Uint256(lo.q % B, (lo.q \div B) % B, q_hi % B, (q_hi \div B) % B),
                path, Len(lo.tr), lo.tr)

div_by_u128(self, d, bld) ==
    LET n_hi == self.l3 * B + self.l2
        n_lo == self.l1 * B + self.l0
        q_hi == n_hi \div d
        r_hi == n_hi % d
    IN u128_halves(q_hi, IF r_hi = 0 THEN "u128_direct" ELSE "u128",
                   div_u256_by_u128(r_hi, n_lo, d, bld.oc))

Uint256_div(self, rhs, bld) ==
    IF rhs.l3 = 0 /\ rhs.l2 = 0
    THEN IF rhs.l1 = 0
         THEN div_by_u64(self, rhs.l0, bld)
         ELSE div_by_u128(self, rhs.l1 * B + rhs.l0, bld)
    ELSE div_knuth(self, rhs, bld)

\* ------------------------------------------------------------------------
\* Int256: the same four limbs, two's complement
\* ------------------------------------------------------------------------
NEG_ONE == Uint256(MaxLimb, MaxLimb, MaxLimb, MaxLimb)
ONE == Uint256(1, 0, 0, 0)
MIN == Uint256(0, 0, 0, HalfLimb)

\* the two's-complement value of a limb record
SVal(x) == IF Val(x) >= B4 \div 2 THEN Val(x) - B4 ELSE Val(x)

is_negative(x) == x.l3 >= HalfLimb       \* (self.l3 as i64) < 0
to_uint256(x) == Uint256(x.l0, x.l1, x.l2, x.l3)
from_uint256(u) == Uint256(u.l0, u.l1, u.l2, u.l3)

\* Int256::add with the carry into the top limb dropped
Int256_add_top_carry_dropped(self, rhs) ==
    LET r0 == overflowing_add(self.l0, rhs.l0)
        r1 == carrying_add(self.l1, rhs.l1, r0.c)
        r2 == carrying_add(self.l2, rhs.l2, r1.c)
        r3 == carrying_add(self.l3, rhs.l3, FALSE)
    IN Uint256(r0.v, r1.v, r2.v, r3.v)

Int256_add(self, rhs) ==
    LET r0 == overflowing_add(self.l0, rhs.l0)
        r1 == carrying_add(self.l1, rhs.l1, r0.c)
        r2 == carrying_add(self.l2, rhs.l2, r1.c)
        r3 == carrying_add(self.l3, rhs.l3, r2.c)
    IN Uint256(r0.v, r1.v, r2.v, r3.v)

\* Int256::sub with the borrow out of limb 0 dropped
Int256_sub_no_borrow(self, rhs) ==
    LET r0 == overflowing_sub(self.l0, rhs.l0)
        r1 == borrowing_sub(self.l1, rhs.l1, FALSE)
        r2 == borrowing_sub(self.l2, rhs.l2, r1.c)
        r3 == borrowing_sub(self.l3, rhs.l3, r2.c)
    IN Uint256(r0.v, r1.v, r2.v, r3.v)

Int256_sub(self, rhs) ==
    LET r0 == overflowing_sub(self.l0, rhs.l0)
        r1 == borrowing_sub(self.l1, rhs.l1, r0.c)
        r2 == borrowing_sub(self.l2, rhs.l2, r1.c)
        r3 == borrowing_sub(self.l3, rhs.l3, r2.c)
    IN Uint256(r0.v, r1.v, r2.v, r3.v)

\* the product of the magnitudes, its sign never restored
Int256_mul_magnitudes(self, rhs) ==
    LET ma == IF self.l3 >= HalfLimb THEN Uint256_sub(ZERO, self) ELSE self
        mb == IF rhs.l3 >= HalfLimb THEN Uint256_sub(ZERO, rhs) ELSE rhs
    IN Uint256_mul(ma, mb)

\* Int256::mul reading only the low two limbs of self
Int256_mul_low_half(self, rhs) ==
    from_uint256(Uint256_mul(Uint256(self.l0, self.l1, 0, 0), to_uint256(rhs)))

Int256_mul(self, rhs) == from_uint256(Uint256_mul(to_uint256(self), to_uint256(rhs)))

\* the magnitude handed to the unsigned division
magnitude(x) == IF is_negative(x) THEN to_uint256(Int256_sub(ZERO, x)) ELSE to_uint256(x)

\* A signed result: status, value, what the unsigned division underneath did
\* (path "none" and udiv FALSE when it was never called) and the number of
\* negations (ZERO - x) evaluated.
SRes(st, v, u, called, negs) ==
    [st |-> st, q |-> v, path |-> u.path, steps |-> u.steps, tr |-> u.tr,
     udiv |-> called, negs |-> negs]

NoDiv == DivRes("none", ZERO, "none", 0, <<>>)

\* fix sign of result: negated when exactly one operand is negative
signed_quotient(self_neg, rhs_neg, uq) ==
    LET n == BoolToInt(self_neg) + BoolToInt(rhs_neg)
    IN IF uq.st # "ok" THEN SRes(uq.st, ZERO, uq, TRUE, n)
       ELSE IF self_neg # rhs_neg
            THEN SRes("ok", Int256_sub(ZERO, from_uint256(uq.q)), uq, TRUE, n + 1)
       ELSE SRes("ok", from_uint256(uq.q), uq, TRUE, n)

\* r = a - q * b, with the sign of the dividend
signed_remainder(self_neg, rhs_neg, ua, ub, uq) ==
    LET n == BoolToInt(self_neg) + BoolToInt(rhs_neg)
        result == from_uint256(Uint256_sub(ua, Uint256_mul(uq.q, ub)))
    IN IF uq.st # "ok" THEN SRes(uq.st, ZERO, uq, TRUE, n)
       ELSE IF self_neg /\ ~is_zero(result)
            THEN SRes("ok", Int256_sub(ZERO, result), uq, TRUE, n + 1)
       ELSE SRes("ok", result, uq, TRUE, n)

\* Int256::div without the zero test of its first lines
Int256_div_no_zero_test(self, rhs, bld) ==
    signed_quotient(is_negative(self), is_negative(rhs),
                    Uint256_div(magnitude(self), magnitude(rhs), bld))

\* Int256::div refusing MIN / -1 the way the native signed division does
Int256_div_overflow_panic(self, rhs, bld) ==
    IF is_zero(rhs) THEN SRes("panic_div_zero", ZERO, NoDiv, FALSE, 0)
    ELSE IF self = MIN /\ rhs = NEG_ONE THEN SRes("panic_overflow", ZERO, NoDiv, FALSE, 0)
    ELSE SRes("ok", ZERO, NoDiv, FALSE, 0)

Int256_div(self, rhs, bld) ==
    IF is_zero(rhs) THEN SRes("panic_div_zero", ZERO, NoDiv, FALSE, 0)
    ELSE signed_quotient(is_negative(self), is_negative(rhs),
                         Uint256_div(magnitude(self), magnitude(rhs), bld))

signed_rem_of(self, rhs, bld, ua, ub) ==
    signed_remainder(is_negative(self), is_negative(rhs), ua, ub, Uint256_div(ua, ub, bld))

Int256_rem(self, rhs, bld) ==
    IF is_zero(rhs) THEN SRes("panic_div_zero", ZERO, NoDiv, FALSE, 0)
    ELSE signed_rem_of(self, rhs, bld, magnitude(self), magnitude(rhs))

\* ------------------------------------------------------------------------
\* Int64 / Uint64 (two u32 limbs) and Int128 / Uint128 (two u64 limbs).
\* A u32 is W32 bits wide; the u64 of the 128-bit types is two u32 halves,
\* W64 bits, which is what the portable mul_u64_full splits it into.
\* ------------------------------------------------------------------------
W32 == LimbBits
W64 == 2 * LimbBits

Int2(l, h) == [l |-> l, h |-> h]
ZERO2 == Int2(0, 0)
\* the limb values of the 128-bit operands: the ends of the range, of its
\* halves and of the low half-word
WideVals == {0, 1, B - 1, B, B2 \div 2 - 1, B2 \div 2, B2 - B, B2 - 1}
Limbs2 == [l : 0..MaxLimb, h : 0..MaxLimb]
Limbs128 == [l : WideVals, h : WideVals]

\* the constants of a signed two-limb type whose limbs are k bits wide
MIN_of(k) == Int2(0, 2 ^ (k - 1))
NEG_ONE_of(k) == Int2(2 ^ k - 1, 2 ^ k - 1)
ONE2 == Int2(1, 0)
Int64_MIN == MIN_of(W32)
Int64_NEG_ONE == NEG_ONE_of(W32)
Int128_MIN == MIN_of(W64)
Int128_NEG_ONE == NEG_ONE_of(W64)

\* the unsigned and the two's-complement value of a two-limb record
Val2(k, x) == x.h * 2 ^ k + x.l
SVal2(k, x) == IF x.h >= 2 ^ (k - 1) THEN Val2(k, x) - 2 ^ (2 * k) ELSE Val2(k, x)

\* to_i64 / to_i128: (self.h as iN) << k | self.l as iN
to_native(k, x) == SVal2(k, x)
\* from_i64 / from_i128: l = v as uK, h = (v >> k) as uK
from_native(k, v) == Int2(v % 2 ^ k, (v \div 2 ^ k) % 2 ^ k)
\* to_u64: (self.h as u64) << 32 | self.l as u64; from_u64 the same split
Uint64_to_u64(x) == x.h * 2 ^ W32 + x.l
Uint64_from_u64(v) == Int2(v % 2 ^ W32, (v \div 2 ^ W32) % 2 ^ W32)
Int64_to_i64(x) == to_native(W32, x)
Int64_from_i64(v) == from_native(W32, v)
Int128_to_i128(x) == to_native(W64, x)
Int128_from_i128(v) == from_native(W64, v)

Abs(n) == IF n < 0 THEN -n ELSE n
TruncDiv(x, y) == IF (x < 0) # (y < 0) THEN -(Abs(x) \div Abs(y)) ELSE Abs(x) \div Abs(y)

\* x / y and x % y on the native signed integer whose least value is min:
\* panic on a zero divisor and on MIN / -1
native_div(x, y, min) ==
    IF y = 0 THEN [st |-> "panic_div_zero", v |-> 0]
    ELSE IF x = min /\ y = -1 THEN [st |-> "panic_overflow", v |-> 0]
    ELSE [st |-> "ok", v |-> TruncDiv(x, y)]
native_rem(x, y, min) ==
    IF y = 0 THEN [st |-> "panic_div_zero", v |-> 0]
    ELSE IF x = min /\ y = -1 THEN [st |-> "panic_overflow", v |-> 0]
    ELSE [st |-> "ok", v |-> x - TruncDiv(x, y) * y]

NRes(k, r) == [st |-> r.st, q |-> IF r.st = "ok" THEN from_native(k, r.v) ELSE ZERO2]

Int64_div(self, rhs) ==
    NRes(W32, native_div(Int64_to_i64(self), Int64_to_i64(rhs), Int64_to_i64(Int64_MIN)))
Int64_rem(self, rhs) ==
    NRes(W32, native_rem(Int64_to_i64(self), Int64_to_i64(rhs), Int64_to_i64(Int64_MIN)))
Int128_div(self, rhs) ==
    NRes(W64, native_div(Int128_to_i128(self), Int128_to_i128(rhs), Int128_to_i128(Int128_MIN)))
Int128_rem(self, rhs) ==
    NRes(W64, native_rem(Int128_to_i128(self), Int128_to_i128(rhs), Int128_to_i128(Int128_MIN)))

\* Sub and Add of the two-limb types: overflowing on l, wrapping on h
sub2(k, self, rhs) ==
    LET l == (self.l - rhs.l + 2 ^ k) % 2 ^ k
        borrow == self.l < rhs.l
    IN Int2(l, (((self.h - rhs.h + 2 ^ k) % 2 ^ k) - BoolToInt(borrow) + 2 ^ k) % 2 ^ k)
add2(k, self, rhs) ==
    LET l == (self.l + rhs.l) % 2 ^ k
        carry == self.l + rhs.l >= 2 ^ k
    IN Int2(l, (((self.h + rhs.h) % 2 ^ k) + BoolToInt(carry)) % 2 ^ k)

Int64_sub(self, rhs) == sub2(W32, self, rhs)
Int128_sub(self, rhs) == sub2(W64, self, rhs)
Int64_add(self, rhs) == add2(W32, self, rhs)
Int128_add(self, rhs) == add2(W64, self, rhs)

\* is_negative: (self.h as iK) < 0
is_negative2(k, x) == x.h >= 2 ^ (k - 1)
Int64_is_negative(x) == is_negative2(W32, x)
Int128_is_negative(x) == is_negative2(W64, x)

\* Neg: Self::ZERO - self
Int64_neg(self) == Int64_sub(ZERO2, self)
Int128_neg(self) == Int128_sub(ZERO2, self)
Int256_neg(self) == Int256_sub(ZERO, self)

\* abs that never negates
Int256_abs_identity(self) == self

\* abs: ZERO - self when negative
Int64_abs(self) == IF Int64_is_negative(self) THEN Int64_sub(ZERO2, self) ELSE self
Int128_abs(self) == IF Int128_is_negative(self) THEN Int128_sub(ZERO2, self) ELSE self
Int256_abs(self) == IF is_negative(self) THEN Int256_sub(ZERO, self) ELSE self

\* wrapping_abs: self.abs()
Int64_wrapping_abs(self) == Int64_abs(self)
Int128_wrapping_abs(self) == Int128_abs(self)
Int256_wrapping_abs(self) == Int256_abs(self)

\* checked_abs: None for MIN, Some(self.abs()) otherwise
None == [some |-> FALSE]
Some(v) == [some |-> TRUE, v |-> v]
Int64_checked_abs(self) == IF self = Int64_MIN THEN None ELSE Some(Int64_abs(self))
Int128_checked_abs(self) == IF self = Int128_MIN THEN None ELSE Some(Int128_abs(self))
Int256_checked_abs(self) == IF self = MIN THEN None ELSE Some(Int256_abs(self))

\* ------------------------------------------------------------------------
\* Ord: cmp returns an Ordering
\* ------------------------------------------------------------------------
\* Ord::cmp on a primitive integer
cmp(x, y) == IF x < y THEN "Less" ELSE IF x = y THEN "Equal" ELSE "Greater"
\* x as i64: the limb read as a signed word
as_i64(x) == IF x >= HalfLimb THEN x - B ELSE x

Uint256_cmp(self, other) ==
    IF cmp(self.l3, other.l3) # "Equal" THEN cmp(self.l3, other.l3)
    ELSE IF cmp(self.l2, other.l2) # "Equal" THEN cmp(self.l2, other.l2)
    ELSE IF cmp(self.l1, other.l1) # "Equal" THEN cmp(self.l1, other.l1)
    ELSE cmp(self.l0, other.l0)

\* Int256::cmp with the top limb compared as an unsigned word
Int256_cmp_unsigned_top(self, other) ==
    Uint256_cmp(self, other)

Int256_cmp(self, other) ==
    IF cmp(as_i64(self.l3), as_i64(other.l3)) # "Equal"
    THEN cmp(as_i64(self.l3), as_i64(other.l3))
    ELSE IF cmp(self.l2, other.l2) # "Equal" THEN cmp(self.l2, other.l2)
    ELSE IF cmp(self.l1, other.l1) # "Equal" THEN cmp(self.l1, other.l1)
    ELSE cmp(self.l0, other.l0)

\* Int256::from_i128 with the upper limbs left zero
from_i128_zero_ext(v) == Uint256(v % B, (v \div B) % B, 0, 0)

\* Int256::from_i128: sign-extend v to four limbs
from_i128(v) ==
    LET sign_ext == IF v < 0 THEN MaxLimb ELSE 0
    IN Uint256(v % B, (v \div B) % B, sign_ext, sign_ext)
\* Int256::to_i128: (self.l1 as i128) << 64 | self.l0 as i128
to_i128(x) ==
    LET u == x.l1 * B + x.l0
    IN IF u >= B2 \div 2 THEN u - B2 ELSE u

\* ------------------------------------------------------------------------
\* Shifts by n: u32. Shl fills with zeros, Shr is arithmetic.
\* ------------------------------------------------------------------------
\* (x as iK) >> n as uK: the vacated top n bits repeat the sign bit
sar(k, x, n) == x \div 2 ^ n + (IF x >= 2 ^ (k - 1) THEN 2 ^ k - 2 ^ (k - n) ELSE 0)

\* Shl of the two-limb types with the bits leaving l never entering h
shl2_no_carry(k, self, n) ==
    IF n >= 2 * k THEN ZERO2
    ELSE IF n >= k THEN Int2(0, (self.l * 2 ^ (n - k)) % 2 ^ k)
    ELSE Int2((self.l * 2 ^ n) % 2 ^ k, (self.h * 2 ^ n) % 2 ^ k)

\* Shl of the two-limb types (limbs k bits wide)
shl2(k, self, n) ==
    IF n >= 2 * k THEN ZERO2
    ELSE IF n >= k THEN Int2(0, (self.l * 2 ^ (n - k)) % 2 ^ k)
    ELSE IF n = 0 THEN self
    ELSE Int2((self.l * 2 ^ n) % 2 ^ k,
              BitOr((self.h * 2 ^ n) % 2 ^ k, self.l \div 2 ^ (k - n)))

\* Shr of the two-limb types
shr2(k, self, n) ==
    IF n >= 2 * k
    THEN IF is_negative2(k, self) THEN NEG_ONE_of(k) ELSE ZERO2
    ELSE IF n >= k THEN Int2(sar(k, self.h, n - k), sar(k, self.h, k - 1))
    ELSE IF n = 0 THEN self
    ELSE Int2(BitOr(self.l \div 2 ^ n, (self.h * 2 ^ (k - n)) % 2 ^ k), sar(k, self.h, n))

Int64_shl(self, n) == shl2(W32, self, n)
Int64_shr(self, n) == shr2(W32, self, n)
Int128_shl(self, n) == shl2(W64, self, n)
Int128_shr(self, n) == shr2(W64, self, n)

Int256_shl(self, n) ==
    IF n >= 4 * LimbBits THEN ZERO
    ELSE IF n = 0 THEN self
    ELSE LET full_limbs == n \div LimbBits
             bits == n % LimbBits
             result(i) ==
                 IF i < full_limbs THEN 0
                 ELSE IF bits = 0 THEN LimbAt(self, i - full_limbs)
                 ELSE IF i > full_limbs
                      THEN BitOr(shl64(LimbAt(self, i - full_limbs), bits),
                                 shr64(LimbAt(self, i - full_limbs - 1), LimbBits - bits))
                      ELSE shl64(LimbAt(self, i - full_limbs), bits)
         IN Uint256(result(0), result(1), result(2), result(3))

\* Shr on Int256 filling with zeros whatever the sign
Int256_shr_logical(self, n) ==
    IF n >= 4 * LimbBits THEN ZERO
    ELSE Uint256((Val(self) \div 2 ^ n) % B, (Val(self) \div (2 ^ n * B)) % B,
                 (Val(self) \div (2 ^ n * B2)) % B, (Val(self) \div (2 ^ n * B2 * B)) % B)

Int256_shr(self, n) ==
    IF n >= 4 * LimbBits THEN (IF is_negative(self) THEN NEG_ONE ELSE ZERO)
    ELSE IF n = 0 THEN self
    ELSE LET full_limbs == n \div LimbBits
             bits == n % LimbBits
             sign_fill == IF is_negative(self) THEN MaxLimb ELSE 0
             result(i) ==
                 IF i >= 4 - full_limbs THEN sign_fill
                 ELSE IF bits = 0 THEN LimbAt(self, i + full_limbs)
                 ELSE IF i + full_limbs + 1 < 4
                      THEN BitOr(shr64(LimbAt(self, i + full_limbs), bits),
                                 shl64(LimbAt(self, i + full_limbs + 1), LimbBits - bits))
                      ELSE BitOr(shr64(LimbAt(self, i + full_limbs), bits),
                                 shl64(sign_fill, LimbBits - bits))
         IN Uint256(result(0), result(1), result(2), result(3))

\* ---------------------------------------------------------------------
\* Add, Sub and Mul of the two-limb types
\* ---------------------------------------------------------------------

Uint64_add(self, rhs) == add2(W32, self, rhs)
Uint64_sub(self, rhs) == sub2(W32, self, rhs)
Uint128_add(self, rhs) == add2(W64, self, rhs)
Uint128_sub(self, rhs) == sub2(W64, self, rhs)

\* the high limb with the cross products left out
mul2_high_no_cross(k, p0_hi, self, rhs) == p0_hi

\* the high limb of Mul: p0_hi.wrapping_add(t1).wrapping_add(t2), the cross
\* products being wrapping_mul
mul2_high(k, p0_hi, self, rhs) ==
    LET t1 == (self.l * rhs.h) % 2 ^ k
        t2 == (self.h * rhs.l) % 2 ^ k
    IN (((p0_hi + t1) % 2 ^ k) + t2) % 2 ^ k

\* Uint64 / Int64 Mul: p0 = (self.l as u64) * (rhs.l as u64)
mul64(self, rhs) ==
    LET p0 == self.l * rhs.l
        p0_lo == p0 % 2 ^ W32
        p0_hi == (p0 \div 2 ^ W32) % 2 ^ W32
    IN Int2(p0_lo, mul2_high(W32, p0_hi, self, rhs))
Uint64_mul(self, rhs) == mul64(self, rhs)
Int64_mul(self, rhs) == mul64(self, rhs)

\* _mulx_u64(a, b, &mut hi): the full product of two limbs
mulx_u64(x, y) == [hi |-> (x * y) \div 2 ^ W64, lo |-> (x * y) % 2 ^ W64]

\* mul_u64_full: the full product from the four products of the halves
mul_u64_full(x, y) ==
    LET a0 == x % 2 ^ W32
        a1 == (x \div 2 ^ W32) % 2 ^ W32
        b0 == y % 2 ^ W32
        b1 == (y \div 2 ^ W32) % 2 ^ W32
        p0 == a0 * b0
        p1 == a0 * b1
        p2 == a1 * b0
        p3 == a1 * b1
        middle == (p1 + p2) % 2 ^ W64
        carry_mid == p1 + p2 >= 2 ^ W64
        shifted == (middle * 2 ^ W32) % 2 ^ W64
        low == (p0 + shifted) % 2 ^ W64
        carry_low == p0 + shifted >= 2 ^ W64
        high == (((p3 + (middle \div 2 ^ W32)) % 2 ^ W64)
                   + ((BoolToInt(carry_mid) * 2 ^ W32) % 2 ^ W64)) % 2 ^ W64
    IN [hi |-> IF carry_low THEN (high + 1) % 2 ^ W64 ELSE high, lo |-> low]

\* Uint128 / Int128 Mul from the product p0 of the low limbs
mul128(p0, self, rhs) == Int2(p0.lo, mul2_high(W64, p0.hi, self, rhs))
Uint128_mul(self, rhs, x86) ==
    mul128(IF x86 THEN mulx_u64(self.l, rhs.l) ELSE mul_u64_full(self.l, rhs.l), self, rhs)
Int128_mul(self, rhs, x86) ==
    mul128(IF x86 THEN mulx_u64(self.l, rhs.l) ELSE mul_u64_full(self.l, rhs.l), self, rhs)

\* ---------------------------------------------------------------------
\* The shift expressions a division reaches whose amount is computed by
\* subtraction: lo >> (128 - shift) in div_u256_by_u128 and >> (64 - bits)
\* in shl_wide / shl_u32.  Each operator gives the set of values of shift
\* (of bits) with which the expression is evaluated.
\* ---------------------------------------------------------------------
\* shl_wide / shl_u32 called with n < 64: the loop body of the bits # 0
\* branch runs with i > full_limbs, and no other branch shifts right
shl_bits_reached(n) ==
    IF n = 0 THEN {}
    ELSE IF n % LimbBits = 0 THEN {}
    ELSE {n % LimbBits}

\* div_u256_by_u128: returns before the shift when hi = 0
u128_shift_reached(hi, d) ==
    IF hi = 0 THEN {} ELSE {leading_zeros128(d)}

ShiftsReached(u128_shift, bits) == [st |-> "ok", u128_shift |-> u128_shift, bits |-> bits]

\* the dispatch of Div, div_by_u128 and div_knuth
div_shifts_reached(self, rhs) ==
    IF rhs.l3 = 0 /\ rhs.l2 = 0
    THEN IF rhs.l1 = 0
         THEN ShiftsReached({}, {})
         ELSE ShiftsReached(u128_shift_reached((self.l3 * B + self.l2) % (rhs.l1 * B + rhs.l0),
                                               rhs.l1 * B + rhs.l0), {})
    ELSE IF Uint256_lt(self, rhs) THEN ShiftsReached({}, {})
    ELSE IF rhs.l3 # 0 THEN ShiftsReached({}, shl_bits_reached(leading_zeros64(rhs.l3)))
    ELSE ShiftsReached({}, shl_bits_reached(leading_zeros64(rhs.l2)))

\* ------------------------------------------------------------------------
\* State: the operands, the build the program was compiled as (fixed by the
\* first operation whose code depends on it), the last operation, the
\* outcome of the last non-remainder operation and of the remainder
\* ------------------------------------------------------------------------
VARIABLES a, b, build, op, res, rres

vars == <<a, b, build, op, res, rres>>

NoBuild == [set |-> FALSE, x86 |-> FALSE, oc |-> FALSE]
BuildOf(bld) == [set |-> TRUE, x86 |-> bld.x86, oc |-> bld.oc]
\* the builds an operation may run under: the one already fixed, or any
BuildsNow == IF build.set THEN {[x86 |-> build.x86, oc |-> build.oc]} ELSE Builds

NoRes == SRes("none", ZERO, NoDiv, FALSE, 0)
Value(v) == SRes("ok", v, NoDiv, FALSE, 0)
UValue(u) == SRes(u.st, u.q, u, TRUE, 0)

Init ==
    /\ a \in Limbs256
    /\ b \in Limbs256
    /\ build = NoBuild
    /\ op = "none"
    /\ res = NoRes
    /\ rres = NoRes

\* a + b, a - b, a * b on Uint256
Add ==
    /\ op = "none"
    /\ op' = "add"
    /\ res' = Value(Uint256_add(a, b))
    /\ UNCHANGED <<a, b, build, rres>>

Sub ==
    /\ op = "none"
    /\ op' = "sub"
    /\ res' = Value(Uint256_sub(a, b))
    /\ UNCHANGED <<a, b, build, rres>>

Mul ==
    /\ op = "none"
    /\ op' = "mul"
    /\ res' = Value(Uint256_mul(a, b))
    /\ UNCHANGED <<a, b, build, rres>>

\* a / b on Uint256
Div ==
    /\ op = "none"
    /\ \E bld \in BuildsNow :
         /\ build' = BuildOf(bld)
         /\ res' = UValue(Uint256_div(a, b, bld))
    /\ op' = "div"
    /\ UNCHANGED <<a, b, rres>>

\* a * b on Int256
I256Mul ==
    /\ op = "none"
    /\ op' = "imul"
    /\ res' = Value(Int256_mul(a, b))
    /\ UNCHANGED <<a, b, build, rres>>

\* a / b on Int256
I256Div ==
    /\ op = "none"
    /\ \E bld \in BuildsNow :
         /\ build' = BuildOf(bld)
         /\ res' = Int256_div(a, b, bld)
    /\ op' = "idiv"
    /\ UNCHANGED <<a, b, rres>>

\* a % b on Int256, alone or after a / b returned
I256Rem ==
    /\ op = "none" \/ (op = "idiv" /\ res.st = "ok")
    /\ \E bld \in BuildsNow :
         /\ build' = BuildOf(bld)
         /\ rres' = Int256_rem(a, b, bld)
    /\ op' = IF op = "none" THEN "irem" ELSE "idivrem"
    /\ UNCHANGED <<a, b, res>>

NextArith == Add \/ Sub \/ Mul
SpecArith == Init /\ [][NextArith]_vars

NextDiv == Div
SpecDiv == Init /\ [][NextDiv]_vars

NextSignedMul == I256Mul
SpecSignedMul == Init /\ [][NextSignedMul]_vars

NextSignedDiv == I256Div \/ I256Rem
SpecSignedDiv == Init /\ [][NextSignedDiv]_vars

\* Int256 division against the boundary divisors
InitEdge ==
    /\ a \in Limbs256
    /\ b \in {ZERO, ONE, NEG_ONE, MIN}
    /\ build = NoBuild
    /\ op = "none"
    /\ res = NoRes
    /\ rres = NoRes

SpecSignedEdge == InitEdge /\ [][NextSignedDiv]_vars

\* Int64 operands: every two-limb pattern; Int128 operands: the patterns
\* of Limbs128
InitNative ==
    /\ \/ a \in Limbs2 /\ b \in Limbs2
       \/ a \in Limbs128 /\ b \in Limbs128
    /\ build = NoBuild
    /\ op = "none"
    /\ res = [st |-> "none", q |-> ZERO2]
    /\ rres = [st |-> "none", q |-> ZERO2]

I64Div ==
    /\ op = "none"
    /\ a \in Limbs2 /\ b \in Limbs2
    /\ op' = "i64div"
    /\ res' = Int64_div(a, b)
    /\ UNCHANGED <<a, b, build, rres>>

I64Rem ==
    /\ op = "none"
    /\ a \in Limbs2 /\ b \in Limbs2
    /\ op' = "i64rem"
    /\ rres' = Int64_rem(a, b)
    /\ UNCHANGED <<a, b, build, res>>

I128Div ==
    /\ op = "none"
    /\ a \in Limbs128 /\ b \in Limbs128
    /\ op' = "i128div"
    /\ res' = Int128_div(a, b)
    /\ UNCHANGED <<a, b, build, rres>>

I128Rem ==
    /\ op = "none"
    /\ a \in Limbs128 /\ b \in Limbs128
    /\ op' = "i128rem"
    /\ rres' = Int128_rem(a, b)
    /\ UNCHANGED <<a, b, build, res>>

NextNative == I64Div \/ I64Rem \/ I128Div \/ I128Rem
SpecNative == InitNative /\ [][NextNative]_vars

\* optimal_u256_mul(&a, &b), the public fast path of x86_64 builds
OptMul ==
    /\ op = "none"
    /\ \E bld \in {c \in BuildsNow : c.x86} :
         /\ build' = BuildOf(bld)
         /\ res' = Value(optimal_u256_mul(a, b))
    /\ op' = "optmul"
    /\ UNCHANGED <<a, b, rres>>

NextOptMul == OptMul
SpecOptMul == Init /\ [][NextOptMul]_vars

\* a.cmp(&b), with b.cmp(&a) and a.cmp(&a), on Uint256 and on Int256
OrdRes(ord, rev, refl) == [st |-> "ok", ord |-> ord, rev |-> rev, refl |-> refl]

Cmp ==
    /\ op = "none"
    /\ op' = "cmp"
    /\ res' = OrdRes(Uint256_cmp(a, b), Uint256_cmp(b, a), Uint256_cmp(a, a))
    /\ UNCHANGED <<a, b, build, rres>>

I256Cmp ==
    /\ op = "none"
    /\ op' = "icmp"
    /\ res' = OrdRes(Int256_cmp(a, b), Int256_cmp(b, a), Int256_cmp(a, a))
    /\ UNCHANGED <<a, b, build, rres>>

NextCmp == Cmp \/ I256Cmp
SpecCmp == Init /\ [][NextCmp]_vars

\* one operand of any of the three signed types; b is not read
Is256(x) == DOMAIN x = {"l0", "l1", "l2", "l3"}
InitUnary ==
    /\ a \in Limbs2 \cup Limbs128 \cup Limbs256
    /\ b = 0
    /\ build = NoBuild
    /\ op = "none"
    /\ res = [st |-> "none"]
    /\ rres = [st |-> "none"]

\* a.abs(), a.wrapping_abs(), a.checked_abs() and -a
AbsRes(abs, wabs, cabs, neg) ==
    [st |-> "ok", abs |-> abs, wabs |-> wabs, cabs |-> cabs, neg |-> neg]

I64Abs ==
    /\ op = "none"
    /\ a \in Limbs2
    /\ op' = "i64abs"
    /\ res' = AbsRes(Int64_abs(a), Int64_wrapping_abs(a), Int64_checked_abs(a), Int64_neg(a))
    /\ UNCHANGED <<a, b, build, rres>>

I128Abs ==
    /\ op = "none"
    /\ a \in Limbs128
    /\ op' = "i128abs"
    /\ res' = AbsRes(Int128_abs(a), Int128_wrapping_abs(a), Int128_checked_abs(a),
                     Int128_neg(a))
    /\ UNCHANGED <<a, b, build, rres>>

I256Abs ==
    /\ op = "none"
    /\ Is256(a)
    /\ op' = "i256abs"
    /\ res' = AbsRes(Int256_abs(a), Int256_wrapping_abs(a), Int256_checked_abs(a),
                     Int256_neg(a))
    /\ UNCHANGED <<a, b, build, rres>>

NextAbs == I64Abs \/ I128Abs \/ I256Abs
SpecAbs == InitUnary /\ [][NextAbs]_vars

\* the algebraic property tests on Int256: a + b - b, a - b + b, a + b and
\* b + a (int256_add_sub_identity, int256_sub_add_identity,
\* int256_add_commutative)
I256AddLaws ==
    /\ op = "none"
    /\ op' = "iaddlaws"
    /\ res' = [st |-> "ok",
               add_sub |-> Int256_sub(Int256_add(a, b), b),
               sub_add |-> Int256_add(Int256_sub(a, b), b),
               ab |-> Int256_add(a, b),
               ba |-> Int256_add(b, a)]
    /\ UNCHANGED <<a, b, build, rres>>

\* a + ZERO, a - a and -(-a) (int256_add_zero, int256_sub_self,
\* int256_neg_neg)
I256SelfLaws ==
    /\ op = "none"
    /\ op' = "iselflaws"
    /\ res' = [st |-> "ok",
               add_zero |-> Int256_add(a, ZERO),
               sub_self |-> Int256_sub(a, a),
               neg_neg |-> Int256_neg(Int256_neg(a))]
    /\ UNCHANGED <<a, b, build, rres>>

\* a * b, b * a, a * ONE and a * ZERO (int256_mul_commutative,
\* int256_mul_identity, int256_mul_zero)
I256MulLaws ==
    /\ op = "none"
    /\ op' = "imullaws"
    /\ res' = [st |-> "ok",
               ab |-> Int256_mul(a, b),
               ba |-> Int256_mul(b, a),
               a_one |-> Int256_mul(a, ONE),
               a_zero |-> Int256_mul(a, ZERO)]
    /\ UNCHANGED <<a, b, build, rres>>

SpecLaws == Init /\ [][I256AddLaws \/ I256SelfLaws \/ I256MulLaws]_vars

\* one operand of any signed type and a shift amount n = b: every amount
\* below the widest type's width, the width itself and beyond
InitShift ==
    /\ a \in Limbs2 \cup Limbs128 \cup Limbs256
    /\ b \in 0..(4 * LimbBits + 2)
    /\ build = NoBuild
    /\ op = "none"
    /\ res = [st |-> "none"]
    /\ rres = [st |-> "none"]

ShiftRes(v) == [st |-> "ok", v |-> v]

I64Shl ==
    /\ op = "none" /\ a \in Limbs2
    /\ op' = "i64shl"
    /\ res' = ShiftRes(Int64_shl(a, b))
    /\ UNCHANGED <<a, b, build, rres>>

I64Shr ==
    /\ op = "none" /\ a \in Limbs2
    /\ op' = "i64shr"
    /\ res' = ShiftRes(Int64_shr(a, b))
    /\ UNCHANGED <<a, b, build, rres>>

I128Shl ==
    /\ op = "none" /\ a \in Limbs128
    /\ op' = "i128shl"
    /\ res' = ShiftRes(Int128_shl(a, b))
    /\ UNCHANGED <<a, b, build, rres>>

I128Shr ==
    /\ op = "none" /\ a \in Limbs128
    /\ op' = "i128shr"
    /\ res' = ShiftRes(Int128_shr(a, b))
    /\ UNCHANGED <<a, b, build, rres>>

I256Shl ==
    /\ op = "none" /\ Is256(a)
    /\ op' = "i256shl"
    /\ res' = ShiftRes(Int256_shl(a, b))
    /\ UNCHANGED <<a, b, build, rres>>

I256Shr ==
    /\ op = "none" /\ Is256(a)
    /\ op' = "i256shr"
    /\ res' = ShiftRes(Int256_shr(a, b))
    /\ UNCHANGED <<a, b, build, rres>>

\* (a << n) >> n: the right shift of the value the left shift returned
I256ShrBack ==
    /\ op = "i256shl"
    /\ op' = "i256shlshr"
    /\ rres' = ShiftRes(Int256_shr(res.v, b))
    /\ UNCHANGED <<a, b, build, res>>

SpecShift ==
    InitShift /\ [][I64Shl \/ I64Shr \/ I128Shl \/ I128Shr \/ I256Shl \/ I256Shr
                    \/ I256ShrBack]_vars

\* the native values of the conversions: a is the value (or, for to_i128
\* alone, an Int256) and b names the conversion's types
InitConv ==
    /\ \/ b = "i64" /\ a \in -(2 ^ (2 * W32 - 1))..(2 ^ (2 * W32 - 1) - 1)
       \/ b = "u64" /\ a \in 0..(2 ^ (2 * W32) - 1)
       \/ b = "i128" /\ a \in -(2 ^ (2 * W64 - 1))..(2 ^ (2 * W64 - 1) - 1)
       \/ b = "i128_256" /\ a \in -(B2 \div 2)..(B2 \div 2 - 1)
       \/ b = "int256" /\ a \in Limbs256
    /\ build = NoBuild
    /\ op = "none"
    /\ res = [st |-> "none"]
    /\ rres = [st |-> "none"]

ConvRes(made, back) == [st |-> "ok", made |-> made, back |-> back]

\* Int64::from_i64(v).to_i64()
I64RoundTrip ==
    /\ op = "none" /\ b = "i64"
    /\ op' = "i64rt"
    /\ res' = ConvRes(Int64_from_i64(a), Int64_to_i64(Int64_from_i64(a)))
    /\ UNCHANGED <<a, b, build, rres>>

\* Uint64::from_u64(v).to_u64()
U64RoundTrip ==
    /\ op = "none" /\ b = "u64"
    /\ op' = "u64rt"
    /\ res' = ConvRes(Uint64_from_u64(a), Uint64_to_u64(Uint64_from_u64(a)))
    /\ UNCHANGED <<a, b, build, rres>>

\* Int128::from_i128(v).to_i128()
I128RoundTrip ==
    /\ op = "none" /\ b = "i128"
    /\ op' = "i128rt"
    /\ res' = ConvRes(Int128_from_i128(a), Int128_to_i128(Int128_from_i128(a)))
    /\ UNCHANGED <<a, b, build, rres>>

\* Int256::from_i128(v).to_i128()
I256RoundTrip ==
    /\ op = "none" /\ b = "i128_256"
    /\ op' = "i256rt"
    /\ res' = ConvRes(from_i128(a), to_i128(from_i128(a)))
    /\ UNCHANGED <<a, b, build, rres>>

\* x.to_i128() of any Int256 x
I256ToI128 ==
    /\ op = "none" /\ b = "int256"
    /\ op' = "i256to"
    /\ res' = ConvRes(a, to_i128(a))
    /\ UNCHANGED <<a, b, build, rres>>

SpecConv ==
    InitConv /\ [][I64RoundTrip \/ U64RoundTrip \/ I128RoundTrip \/ I256RoundTrip
                   \/ I256ToI128]_vars

\* a + b on Uint64
U64Add ==
    /\ op = "none"
    /\ a \in Limbs2 /\ b \in Limbs2
    /\ op' = "u64add"
    /\ res' = [st |-> "ok", q |-> Uint64_add(a, b)]
    /\ UNCHANGED <<a, b, build, rres>>

\* a - b on Uint64
U64Sub ==
    /\ op = "none"
    /\ a \in Limbs2 /\ b \in Limbs2
    /\ op' = "u64sub"
    /\ res' = [st |-> "ok", q |-> Uint64_sub(a, b)]
    /\ UNCHANGED <<a, b, build, rres>>

\* a * b on Uint64
U64Mul ==
    /\ op = "none"
    /\ a \in Limbs2 /\ b \in Limbs2
    /\ op' = "u64mul"
    /\ res' = [st |-> "ok", q |-> Uint64_mul(a, b)]
    /\ UNCHANGED <<a, b, build, rres>>

\* a + b on Int64
I64Add ==
    /\ op = "none"
    /\ a \in Limbs2 /\ b \in Limbs2
    /\ op' = "i64add"
    /\ res' = [st |-> "ok", q |-> Int64_add(a, b)]
    /\ UNCHANGED <<a, b, build, rres>>

\* a - b on Int64
I64Sub ==
    /\ op = "none"
    /\ a \in Limbs2 /\ b \in Limbs2
    /\ op' = "i64sub"
    /\ res' = [st |-> "ok", q |-> Int64_sub(a, b)]
    /\ UNCHANGED <<a, b, build, rres>>

\* a * b on Int64
I64Mul ==
    /\ op = "none"
    /\ a \in Limbs2 /\ b \in Limbs2
    /\ op' = "i64mul"
    /\ res' = [st |-> "ok", q |-> Int64_mul(a, b)]
    /\ UNCHANGED <<a, b, build, rres>>

\* a + b on Uint128
U128Add ==
    /\ op = "none"
    /\ a \in Limbs128 /\ b \in Limbs128
    /\ op' = "u128add"
    /\ res' = [st |-> "ok", q |-> Uint128_add(a, b)]
    /\ UNCHANGED <<a, b, build, rres>>

\* a - b on Uint128
U128Sub ==
    /\ op = "none"
    /\ a \in Limbs128 /\ b \in Limbs128
    /\ op' = "u128sub"
    /\ res' = [st |-> "ok", q |-> Uint128_sub(a, b)]
    /\ UNCHANGED <<a, b, build, rres>>

\* a * b on Uint128
U128Mul ==
    /\ op = "none"
    /\ a \in Limbs128 /\ b \in Limbs128
    /\ op' = "u128mul"
    /\ \E bld \in BuildsNow :
         /\ build' = BuildOf(bld)
         /\ res' = [st |-> "ok", q |-> Uint128_mul(a, b, bld.x86)]
    /\ UNCHANGED <<a, b, rres>>

\* a + b on Int128
I128Add ==
    /\ op = "none"
    /\ a \in Limbs128 /\ b \in Limbs128
    /\ op' = "i128add"
    /\ res' = [st |-> "ok", q |-> Int128_add(a, b)]
    /\ UNCHANGED <<a, b, build, rres>>

\* a - b on Int128
I128Sub ==
    /\ op = "none"
    /\ a \in Limbs128 /\ b \in Limbs128
    /\ op' = "i128sub"
    /\ res' = [st |-> "ok", q |-> Int128_sub(a, b)]
    /\ UNCHANGED <<a, b, build, rres>>

\* a * b on Int128
I128Mul ==
    /\ op = "none"
    /\ a \in Limbs128 /\ b \in Limbs128
    /\ op' = "i128mul"
    /\ \E bld \in BuildsNow :
         /\ build' = BuildOf(bld)
         /\ res' = [st |-> "ok", q |-> Int128_mul(a, b, bld.x86)]
    /\ UNCHANGED <<a, b, rres>>

SpecTwoLimb ==
    InitNative /\ [][U64Add \/ U64Sub \/ U64Mul
                   \/ I64Add \/ I64Sub \/ I64Mul
                   \/ U128Add \/ U128Sub \/ U128Mul
                   \/ I128Add \/ I128Sub \/ I128Mul]_vars

\* the limbs the digit loop of the one-digit Knuth path reads, LoopBits wide:
\* the top three limbs of a dividend and of a divisor with l3 # 0, the
\* dividend not below the divisor
InitLoop ==
    /\ a \in [l3 : 0..(2 ^ LoopBits - 1), l2 : 0..(2 ^ LoopBits - 1), l1 : {0, 2 ^ LoopBits - 1}]
    /\ b \in [l3 : 1..(2 ^ LoopBits - 1), l2 : 0..(2 ^ LoopBits - 1), l1 : {0, 2 ^ LoopBits - 1}]
    /\ <<a.l3, a.l2>> # <<b.l3, b.l2>> => (a.l3 > b.l3 \/ (a.l3 = b.l3 /\ a.l2 > b.l2))
    /\ <<a.l3, a.l2>> = <<b.l3, b.l2>> => a.l1 >= b.l1
    /\ build = NoBuild
    /\ op = "none"
    /\ res = [st |-> "none"]
    /\ rres = [st |-> "none"]

\* let shift = d.l3.leading_zeros(); .. loop { .. qhat -= 1 }
DigitLoop ==
    /\ op = "none"
    /\ ~Is256(a)
    /\ \E bld \in BuildsNow :
         /\ build' = BuildOf(bld)
         /\ res' = first_digit_loop(LoopBits, a, b, lz_w(LoopBits, b.l3), bld.oc)
    /\ op' = "loop"
    /\ UNCHANGED <<a, b, rres>>

\* a / b on Uint256 among the runs of the digit loops
DivDigits == Is256(a) /\ Div

SpecDigits == (Init \/ InitLoop) /\ [][DivDigits \/ DigitLoop]_vars

\* a * b on Uint256, column by column
MulColumns ==
    /\ op = "none"
    /\ op' = "mulcols"
    /\ res' = mul_columns(a, b)
    /\ UNCHANGED <<a, b, build, rres>>

SpecMulColumns == Init /\ [][MulColumns]_vars

\* the operands as Int256 and as Uint256 through the same operation: s is
\* (Int256(a) op Int256(b)).to_uint256(), u is Uint256(a) op Uint256(b)
BothRes(s, u) == [st |-> "ok", s |-> s, u |-> u]

BothAdd ==
    /\ op = "none"
    /\ op' = "bothadd"
    /\ res' = BothRes(to_uint256(Int256_add(from_uint256(a), from_uint256(b))),
                      Uint256_add(a, b))
    /\ UNCHANGED <<a, b, build, rres>>

BothSub ==
    /\ op = "none"
    /\ op' = "bothsub"
    /\ res' = BothRes(to_uint256(Int256_sub(from_uint256(a), from_uint256(b))),
                      Uint256_sub(a, b))
    /\ UNCHANGED <<a, b, build, rres>>

BothMul ==
    /\ op = "none"
    /\ op' = "bothmul"
    /\ res' = BothRes(to_uint256(Int256_mul(from_uint256(a), from_uint256(b))),
                      Uint256_mul(a, b))
    /\ UNCHANGED <<a, b, build, rres>>

SpecBoth == Init /\ [][BothAdd \/ BothSub \/ BothMul]_vars

\* the normalization of a / b on a Knuth path (b.l3 # 0 or b.l2 # 0, a >= b)
KnuthNormalize ==
    /\ op = "none"
    /\ ~(b.l3 = 0 /\ b.l2 = 0)
    /\ ~Uint256_lt(a, b)
    /\ op' = "normalize"
    /\ res' = IF b.l3 # 0 THEN knuth_normalize(a, b, 4, leading_zeros64(b.l3))
              ELSE knuth_normalize(a, b, 3, leading_zeros64(b.l2))
    /\ UNCHANGED <<a, b, build, rres>>

SpecNormalize == Init /\ [][KnuthNormalize \/ Div]_vars

\* a / b on Uint256 with a non-zero b, watched for its shifts
DivShifts ==
    /\ op = "none"
    /\ ~is_zero(b)
    /\ op' = "divshifts"
    /\ res' = div_shifts_reached(a, b)
    /\ UNCHANGED <<a, b, build, rres>>

SpecDivShifts == Init /\ [][DivShifts]_vars

\* a remainder window with the four limbs of w at rem[j..j+3]
WindowAt(w, j) ==
    [i \in 0..6 |-> IF i >= j /\ i < j + 4 THEN LimbAt(w, i - j) ELSE 0]

\* the operands of the multiply-and-subtract: a window, a trial digit, a divisor
InitSubMul ==
    /\ a \in [w : Limbs256, qhat : LimbVals]
    /\ b \in Limbs256
    /\ build = NoBuild
    /\ op = "none"
    /\ res = [st |-> "none"]
    /\ rres = [st |-> "none"]

\* sub_mul_limbs(&mut rem, 0, &d, qhat)
SubMulLimbs ==
    /\ op = "none"
    /\ op' = "submul"
    /\ res' = sub_mul_limbs(WindowAt(a.w, 0), 0, b, a.qhat)
    /\ UNCHANGED <<a, b, build, rres>>

\* sub_mul_limbs_3(&mut rem, j, &d, qhat) for j in (0..=1)
SubMulLimbs3 ==
    /\ op = "none"
    /\ op' = "submul3"
    /\ \E j \in 0..1 : res' = sub_mul_limbs_3(WindowAt(a.w, j), j, b, a.qhat)
    /\ UNCHANGED <<a, b, build, rres>>

SpecSubMul == InitSubMul /\ [][SubMulLimbs \/ SubMulLimbs3]_vars

Next == Add \/ Sub \/ Mul \/ Div \/ I256Mul \/ I256Div \/ I256Rem \/ OptMul \/ Cmp \/ I256Cmp
Spec == Init /\ [][Next]_vars

\* ------------------------------------------------------------------------
\* Claims
\* ------------------------------------------------------------------------
\* C1: for every dividend a and non-zero divisor b, Div returns
\* q = floor(a / b), i.e. q*b <= a and a - q*b < b, on every dispatch path.
C1_DivIsFloor ==
    (op = "div" /\ ~is_zero(b)) =>
        /\ res.st = "ok"
        /\ Val(res.q) * Val(b) <= Val(a)
        /\ Val(a) - Val(res.q) * Val(b) < Val(b)


C3_AddSubWrap ==
    /\ op = "add" => (res.st = "ok" /\ Val(res.q) = (Val(a) + Val(b)) % B4)
    /\ op = "sub" => (res.st = "ok" /\ Val(res.q) = (Val(a) - Val(b) + B4) % B4)

\* the case of C3: a sum carrying out of limb 0 and out of limb 3
C3_Witness ==
    /\ op = "add"
    /\ a.l0 + b.l0 >= B
    /\ Val(a) + Val(b) >= B4
    /\ Val(res.q) = Val(a) + Val(b) - B4

\* C4: for every Int256 a and non-zero b, (a / b) * b + (a % b) == a under
\* wrapping arithmetic, |a % b| < |b|, and a % b is zero or has the sign of a.
C4_DivRemIdentity ==
    /\ (op = "idiv" /\ ~is_zero(b)) => res.st = "ok"
    /\ (op = "irem" /\ ~is_zero(b)) => rres.st = "ok"
    /\ op = "idivrem" =>
         /\ rres.st = "ok"
         /\ Int256_add(Int256_mul(res.q, b), rres.q) = a
         /\ Abs(SVal(rres.q)) < Abs(SVal(b))
         /\ (is_zero(rres.q) \/ is_negative(rres.q) = is_negative(a))

\* the signed operands that from_i128 produces: l2 and l3 repeat the sign
IsFromI128(x) ==
    \/ (x.l1 < HalfLimb /\ x.l2 = 0 /\ x.l3 = 0)
    \/ (x.l1 >= HalfLimb /\ x.l2 = MaxLimb /\ x.l3 = MaxLimb)

\* C5: Int256 division truncates toward zero: for every a and non-zero b
\* with (a, b) # (MIN, -1), a / b is the quotient of the two's-complement
\* values rounded toward zero (negative only when exactly one operand is);
\* for operands built with from_i128, / and % equal the native results.
C5_DivTruncates ==
    /\ (op = "idiv" /\ ~is_zero(b) /\ ~(a = MIN /\ b = NEG_ONE)) =>
         /\ res.st = "ok"
         /\ SVal(res.q) = TruncDiv(SVal(a), SVal(b))
         /\ is_negative(res.q) => (is_negative(a) # is_negative(b))
    /\ (op = "irem" /\ ~is_zero(b) /\ IsFromI128(a) /\ IsFromI128(b)
          /\ ~(a = MIN /\ b = NEG_ONE)) =>
         /\ rres.st = "ok"
         /\ SVal(rres.q) = SVal(a) - TruncDiv(SVal(a), SVal(b)) * SVal(b)

\* C6: MIN / NEG_ONE returns MIN and MIN % NEG_ONE returns ZERO; neither
\* reports a failure.
C6_MinByNegOne ==
    (a = MIN /\ b = NEG_ONE) =>
        /\ op \in {"idiv", "idivrem"} => (res.st = "ok" /\ res.q = MIN)
        /\ op \in {"irem", "idivrem"} => (rres.st = "ok" /\ rres.q = ZERO)

\* the case of C6: MIN divided by NEG_ONE and then reduced modulo NEG_ONE
C6_Witness == a = MIN /\ b = NEG_ONE /\ op = "idivrem" /\ res.q = MIN /\ rres.q = ZERO

\* C7: on Int64 and Int128, division and remainder fail only on a zero
\* divisor: MIN / NEG_ONE returns MIN and MIN % NEG_ONE returns zero.
C7_NativeFailsOnlyOnZero ==
    /\ (op \in {"i64div", "i128div"} /\ b # ZERO2) => res.st = "ok"
    /\ (op \in {"i64rem", "i128rem"} /\ b # ZERO2) => rres.st = "ok"
    /\ (op = "i64div" /\ a = Int64_MIN /\ b = Int64_NEG_ONE) => res.q = Int64_MIN
    /\ (op = "i128div" /\ a = Int128_MIN /\ b = Int128_NEG_ONE) => res.q = Int128_MIN
    /\ (op = "i64rem" /\ a = Int64_MIN /\ b = Int64_NEG_ONE) => rres.q = ZERO2
    /\ (op = "i128rem" /\ a = Int128_MIN /\ b = Int128_NEG_ONE) => rres.q = ZERO2

\* C8: Int256 Div and Rem with a zero divisor always end in the
\* division-by-zero failure, raised before any negation or unsigned division
\* is performed; no value is returned.
C8_ZeroDivisorPanicsFirst ==
    /\ (op = "idiv" /\ is_zero(b)) =>
         (res.st = "panic_div_zero" /\ ~res.udiv /\ res.negs = 0 /\ res.steps = 0)
    /\ (op = "irem" /\ is_zero(b)) =>
         (rres.st = "panic_div_zero" /\ ~rres.udiv /\ rres.negs = 0 /\ rres.steps = 0)
    /\ (op = "idivrem") => ~is_zero(b)

\* the case of C8: a negative dividend divided by zero
C8_Witness == op = "idiv" /\ is_zero(b) /\ is_negative(a) /\ res.st = "panic_div_zero"

\* C9: dividing any Uint256 by ZERO reports the division failure and returns
\* no quotient; the zero divisor takes the one-limb path, which fails on its
\* first limb division.
C9_DivByZeroFails ==
    (op = "div" /\ is_zero(b)) =>
        /\ res.st \in {"panic_div_zero", "trap_divide_error"}
        /\ res.path = "u64"
        /\ res.steps = 1

\* the case of C9: a non-zero dividend divided by ZERO
C9_Witness == op = "div" /\ is_zero(b) /\ ~is_zero(a) /\ res.st # "ok" /\ res.steps = 1

C11_OptMulEqualsMul ==
    op = "optmul" => (res.st = "ok" /\ res.q = Uint256_mul(a, b))

\* C12: Ord on Int256 is the numeric order of the two's-complement values
\* and Ord on Uint256 the numeric order of the unsigned values; each is
\* total, reflexive and antisymmetric (a <= b and b <= a implies a == b);
\* for operands built with from_i128 the Int256 order is the i128 order.
C12_OrdIsNumeric ==
    /\ op = "cmp" => res.ord = cmp(Val(a), Val(b))
    /\ op = "icmp" =>
         /\ res.ord = cmp(SVal(a), SVal(b))
         /\ (IsFromI128(a) /\ IsFromI128(b)) => res.ord = cmp(to_i128(a), to_i128(b))
    /\ op \in {"cmp", "icmp"} =>
         /\ res.refl = "Equal"
         /\ (res.ord = "Less") = (res.rev = "Greater")
         /\ (res.ord = "Equal") = (res.rev = "Equal")
         /\ (res.ord # "Greater" /\ res.rev # "Greater") => a = b

\* the case of C12: a negative Int256 against a non-negative one whose top
\* limb is the smaller unsigned word
C12_Witness ==
    /\ op = "icmp"
    /\ is_negative(a) /\ ~is_negative(b)
    /\ a.l3 > b.l3
    /\ res.ord = "Less" /\ res.rev = "Greater"

\* what C13 says of one operand: x its value, r the four results, is_min
\* whether it is MIN, abs_is_min / neg_is_min whether abs and - returned
\* MIN, v_some the value inside checked_abs (0 when it is None) and
\* some_neg whether that value is negative
AbsLaw(x, r, is_min, abs_is_min, neg_is_min, v_some, some_neg) ==
    /\ r.st = "ok"
    /\ is_min => (abs_is_min /\ neg_is_min)
    /\ r.cabs.some = ~is_min
    /\ r.cabs.some => (~some_neg /\ v_some = Abs(x))
    /\ r.wabs = r.abs

\* C13: for Int64, Int128 and Int256, abs(MIN) == MIN and -MIN == MIN
\* without failing; checked_abs(x) is None exactly when x == MIN and
\* otherwise Some(v) with v non-negative and equal to the magnitude of x;
\* wrapping_abs(x) == abs(x) for every x.
C13_AbsOfMin ==
    /\ op = "i64abs" =>
         AbsLaw(SVal2(W32, a), res, a = Int64_MIN,
                res.abs = Int64_MIN, res.neg = Int64_MIN,
                IF res.cabs.some THEN SVal2(W32, res.cabs.v) ELSE 0,
                res.cabs.some /\ Int64_is_negative(res.cabs.v))
    /\ op = "i128abs" =>
         AbsLaw(SVal2(W64, a), res, a = Int128_MIN,
                res.abs = Int128_MIN, res.neg = Int128_MIN,
                IF res.cabs.some THEN SVal2(W64, res.cabs.v) ELSE 0,
                res.cabs.some /\ Int128_is_negative(res.cabs.v))
    /\ op = "i256abs" =>
         AbsLaw(SVal(a), res, a = MIN, res.abs = MIN, res.neg = MIN,
                IF res.cabs.some THEN SVal(res.cabs.v) ELSE 0,
                res.cabs.some /\ is_negative(res.cabs.v))

\* the case of C13: the absolute values of Int256::MIN
C13_Witness ==
    /\ op = "i256abs" /\ a = MIN
    /\ res.abs = MIN /\ res.neg = MIN /\ res.wabs = MIN /\ ~res.cabs.some

\* C14: for all Int256 a and b (every 256-bit pattern): a + b - b == a,
\* a - b + b == a, a - a == ZERO, a + ZERO == a, a + b == b + a and
\* -(-a) == a.
C14_AddSubLaws ==
    /\ op = "iaddlaws" =>
         /\ res.add_sub = a
         /\ res.sub_add = a
         /\ res.ab = res.ba
    /\ op = "iselflaws" =>
         /\ res.sub_self = ZERO
         /\ res.add_zero = a
         /\ res.neg_neg = a

\* the case of C14: a + b wraps past 2^256 and a - b borrows out of limb 0
C14_Witness ==
    /\ op = "iaddlaws"
    /\ Val(a) + Val(b) >= B4
    /\ a.l0 < b.l0
    /\ res.add_sub = a /\ res.sub_add = a /\ res.ab # a

\* C15: for all Int256 a and b (every 256-bit pattern): a * b == b * a,
\* a * ONE == a and a * ZERO == ZERO.
C15_MulLaws ==
    op = "imullaws" =>
        /\ res.ab = res.ba
        /\ res.a_one = a
        /\ res.a_zero = ZERO

\* the case of C15: two negative operands whose column sums overflow
C15_Witness ==
    /\ op = "imullaws"
    /\ a = NEG_ONE /\ is_negative(b) /\ b.l0 = MaxLimb /\ b.l1 = MaxLimb
    /\ res.ab = res.ba /\ res.a_one = a

\* floor(x / 2^n) for any integer x
FloorShift(x, n) == IF x >= 0 THEN x \div 2 ^ n ELSE -((-x + 2 ^ n - 1) \div 2 ^ n)

\* what C16 says of x >> n on a type of the given width: sv the value of x,
\* rv the value of the result
ShrLaw(width, n, sv, rv) ==
    /\ n < width => rv = FloorShift(sv, n)
    /\ n >= width => rv = (IF sv < 0 THEN -1 ELSE 0)
    /\ (sv < 0 /\ n = width - 1) => rv = -1

\* C16: right shift on Int64, Int128 and Int256 is arithmetic: for
\* 0 <= n < width, x >> n is floor(value(x) / 2^n); for n >= width it is
\* NEG_ONE for negative x and ZERO otherwise; a negative value shifted by
\* width-1 is -1; on Int256 (x << n) >> n == x for non-negative x that fits
\* in 128 bits and n below one limb.
C16_ShrArithmetic ==
    /\ op = "i64shr" => ShrLaw(2 * W32, b, SVal2(W32, a), SVal2(W32, res.v))
    /\ op = "i128shr" => ShrLaw(2 * W64, b, SVal2(W64, a), SVal2(W64, res.v))
    /\ op = "i256shr" => ShrLaw(4 * LimbBits, b, SVal(a), SVal(res.v))
    /\ (op = "i256shlshr" /\ IsFromI128(a) /\ ~is_negative(a) /\ b < LimbBits) =>
         rres.v = a

\* the case of C16: a negative Int256 shifted across a limb boundary by an
\* amount that is no multiple of the limb width
C16_Witness ==
    /\ op = "i256shr"
    /\ is_negative(a) /\ a # NEG_ONE
    /\ b > LimbBits /\ b % LimbBits # 0 /\ b < 4 * LimbBits
    /\ res.v # NEG_ONE /\ is_negative(res.v)

\* what C17 says of x << n on a type of the given width: uv the bits of x
\* and rv the bits of the result, as unsigned numbers
ShlLaw(width, n, uv, rv) ==
    /\ n < width => rv = (uv * 2 ^ n) % 2 ^ width
    /\ n >= width => rv = 0

\* C17: left shift on Int64, Int128 and Int256: for 0 <= n < width, x << n
\* is (bits(x) * 2^n) mod 2^width, bits crossing limb boundaries carried
\* into the next higher limb; for n >= width (n == width included) ZERO.
C17_ShlWraps ==
    /\ op = "i64shl" => ShlLaw(2 * W32, b, Val2(W32, a), Val2(W32, res.v))
    /\ op = "i128shl" => ShlLaw(2 * W64, b, Val2(W64, a), Val2(W64, res.v))
    /\ op \in {"i256shl", "i256shlshr"} => ShlLaw(4 * LimbBits, b, Val(a), Val(res.v))

\* the case of C17: an Int128 whose low limb has its top bit set, shifted by
\* less than a limb, so that the bit enters the high limb
C17_Witness ==
    /\ op = "i128shl"
    /\ a.l >= 2 ^ (W64 - 1) /\ a.h = 0
    /\ b > 0 /\ b < W64
    /\ res.v.h # 0

\* C18: conversions round-trip: from_i64(v).to_i64() == v,
\* from_u64(v).to_u64() == v, Int128::from_i128(v).to_i128() == v and
\* Int256::from_i128(v).to_i128() == v for every native v; Int256::from_i128
\* sign-extends (l2 = l3 = all ones exactly when v < 0), so the 256-bit
\* value is v; Int256::to_i128 returns the low 128 bits when the value does
\* not fit.
C18_RoundTrip ==
    /\ op \in {"i64rt", "u64rt", "i128rt", "i256rt"} => res.back = a
    /\ op = "i256rt" =>
         /\ (res.made.l2 = MaxLimb /\ res.made.l3 = MaxLimb) = (a < 0)
         /\ (res.made.l2 = 0 /\ res.made.l3 = 0) = (a >= 0)
         /\ SVal(res.made) = a
    /\ op = "i256to" =>
         res.back = (IF Val(a) % B2 >= B2 \div 2 THEN (Val(a) % B2) - B2 ELSE Val(a) % B2)

\* the case of C18: a negative i128 below -2^64 through Int256
C18_Witness ==
    /\ op = "i256rt"
    /\ a < -B
    /\ res.made.l3 = MaxLimb /\ res.made.l1 # MaxLimb
    /\ res.back = a

\* the native wrapping result of a two-limb operation on unsigned values
WrapsTo(k, r, v) == Val2(k, r) = v % 2 ^ (2 * k)
\* the same on signed values: the result read as a signed native
SWrapsTo(k, r, v) == SVal2(k, r) = ((v + 2 ^ (2 * k - 1)) % 2 ^ (2 * k)) - 2 ^ (2 * k - 1)
\* only the low product is widened; the cross products give their low limb
MulShape(k, r, x, y) ==
    /\ r.l = (x.l * y.l) % 2 ^ k
    /\ r.h = (((x.l * y.l) \div 2 ^ k) + ((x.l * y.h) % 2 ^ k) + ((x.h * y.l) % 2 ^ k)) % 2 ^ k

\* C19: Add, Sub and Mul of Uint64, Int64, Uint128 and Int128 equal the
\* native wrapping_add, wrapping_sub and wrapping_mul bit for bit; in Mul only
\* the low-limb product is widened and each cross product contributes its
\* low limb to the high limb.
C19_NativeWrapping ==
    /\ op = "u64add" => WrapsTo(W32, res.q, Val2(W32, a) + Val2(W32, b))
    /\ op = "u64sub" => WrapsTo(W32, res.q, Val2(W32, a) - Val2(W32, b))
    /\ op = "u64mul" => WrapsTo(W32, res.q, Val2(W32, a) * Val2(W32, b)) /\ MulShape(W32, res.q, a, b)
    /\ op = "i64add" => SWrapsTo(W32, res.q, SVal2(W32, a) + SVal2(W32, b))
    /\ op = "i64sub" => SWrapsTo(W32, res.q, SVal2(W32, a) - SVal2(W32, b))
    /\ op = "i64mul" => SWrapsTo(W32, res.q, SVal2(W32, a) * SVal2(W32, b)) /\ MulShape(W32, res.q, a, b)
    /\ op = "u128add" => WrapsTo(W64, res.q, Val2(W64, a) + Val2(W64, b))
    /\ op = "u128sub" => WrapsTo(W64, res.q, Val2(W64, a) - Val2(W64, b))
    /\ op = "u128mul" => WrapsTo(W64, res.q, Val2(W64, a) * Val2(W64, b)) /\ MulShape(W64, res.q, a, b)
    /\ op = "i128add" => SWrapsTo(W64, res.q, SVal2(W64, a) + SVal2(W64, b))
    /\ op = "i128sub" => SWrapsTo(W64, res.q, SVal2(W64, a) - SVal2(W64, b))
    /\ op = "i128mul" => SWrapsTo(W64, res.q, SVal2(W64, a) * SVal2(W64, b)) /\ MulShape(W64, res.q, a, b)

\* the case of C19: a portable Uint128 product whose middle sum and low sum
\* both carry, with both cross products wrapping into the high limb
C19_Witness ==
    /\ op = "u128mul"
    /\ build.set /\ ~build.x86
    /\ a.l = 2 ^ W64 - 1 /\ b.l = 2 ^ W64 - 1
    /\ a.h = 2 ^ W64 - 1 /\ b.h = 2 ^ W64 - 1
    /\ res.q = Int2(1, 0)

\* C20: on the two-limb-divisor path (divisor d with l2 = l3 = 0 and
\* l1 # 0) the quotient equals floor(a / d) for every dividend, divisors with
\* bit 127 set and a non-zero high-half remainder included.
C20_TwoLimbPathIsFloor ==
    (op = "div" /\ b.l3 = 0 /\ b.l2 = 0 /\ b.l1 # 0) =>
        /\ res.path \in {"u128", "u128_direct"}
        /\ res.st = "ok"
        /\ Val(res.q) = Val(a) \div Val(b)

\* C21: in every quotient-digit correction loop of the division (the digit
\* of div_large_divisor_64bit_quotient, both digits of
\* div_large_divisor_128bit_quotient, both loops of div_u256_by_u128) the
\* trial digit is decremented at most 2 times, for every dividend and every
\* divisor that reaches the path.
C21_AtMostTwoDecrements ==
    /\ (op = "div" /\ res.path \in {"knuth64", "knuth128", "u128"}) =>
          \A i \in 1..Len(res.tr) : res.tr[i].decs <= 2
    /\ op = "loop" => res.decs <= 2

\* the case of C21: a loop that decrements twice and then exits
C21_Witness == op = "loop" /\ res.st = "ok" /\ res.decs = 2

\* one digit of a Knuth path against the true digit win \div dn
DigitLaw(t) ==
    /\ t.qloop \in {t.win \div t.dn, t.win \div t.dn + 1}
    /\ t.borrow = (t.qloop = t.win \div t.dn + 1)
    /\ t.qhat = t.win \div t.dn
    /\ t.out = t.win - (t.win \div t.dn) * t.dn
    /\ t.out < t.dn

\* C22: in the Knuth paths, for each quotient digit: after the correction
\* loop qhat is the true digit or the true digit plus one; the
\* multiply-and-subtract reports a borrow exactly when qhat is one too large;
\* after the optional decrement and add-back qhat is the true digit and the
\* remainder window is non-negative and smaller than the normalized divisor,
\* so both digits of the quotient by a divisor with l2 # 0 and l3 = 0 match
\* floor(a / b).
C22_DigitsAreTrue ==
    (op = "div" /\ res.path \in {"knuth64", "knuth128"}) =>
        /\ res.st = "ok"
        /\ \A i \in 1..Len(res.tr) : DigitLaw(res.tr[i])
        /\ res.path = "knuth128" =>
             /\ Len(res.tr) = 2
             /\ res.q.l1 = (Val(a) \div Val(b)) \div B
             /\ res.q.l0 = (Val(a) \div Val(b)) % B

\* the case of C22: a two-digit quotient whose low digit was one too large
\* after the loop and was repaired by the add-back
C22_Witness ==
    /\ op = "div" /\ res.path = "knuth128" /\ res.st = "ok"
    /\ res.tr[2].borrow
    /\ res.tr[2].qloop = res.tr[2].qhat + 1
    /\ res.q.l1 # 0

\* C23: quotient width follows divisor size: a divisor with l3 # 0 gives a
\* quotient with l1 = l2 = l3 = 0 computed with one digit iteration; a divisor
\* with l2 # 0 and l3 = 0 gives a quotient with l2 = l3 = 0 computed with two
\* digit iterations, most significant digit first; and a < b on the Knuth path
\* gives ZERO without any normalization.
C23_QuotientWidth ==
    (op = "div" /\ (b.l3 # 0 \/ b.l2 # 0)) =>
        /\ Uint256_lt(a, b) =>
             res.st = "ok" /\ res.q = ZERO /\ res.path = "knuth_lt" /\ res.steps = 0
               /\ res.tr = <<>>
        /\ (~Uint256_lt(a, b) /\ b.l3 # 0) =>
             /\ res.st = "ok" /\ res.path = "knuth64"
             /\ res.q.l1 = 0 /\ res.q.l2 = 0 /\ res.q.l3 = 0
             /\ res.steps = 1 /\ Len(res.tr) = 1
             /\ res.tr[1].j = 0 /\ res.q.l0 = res.tr[1].qhat
        /\ (~Uint256_lt(a, b) /\ b.l3 = 0) =>
             /\ res.st = "ok" /\ res.path = "knuth128"
             /\ res.q.l2 = 0 /\ res.q.l3 = 0
             /\ res.steps = 2 /\ Len(res.tr) = 2
             /\ res.tr[1].j = 1 /\ res.q.l1 = res.tr[1].qhat
             /\ res.tr[2].j = 0 /\ res.q.l0 = res.tr[2].qhat

\* the case of C23: two digit iterations giving two different non-zero digits
C23_Witness ==
    /\ op = "div" /\ b.l3 = 0 /\ b.l2 # 0 /\ res.st = "ok"
    /\ Len(res.tr) = 2 /\ res.tr[1].j = 1 /\ res.tr[2].j = 0
    /\ res.q.l1 # 0 /\ res.q.l0 # 0 /\ res.q.l1 # res.q.l0

\* C24: on the one-limb-divisor path (div_by_u64 with d # 0) limbs are
\* processed from l3 down to l0, the running remainder carried into each step
\* is strictly less than d (so the high word of every 128-by-64 division is
\* less than d and the hardware divide cannot overflow), and each of the four
\* quotient limbs is exact, giving floor(a / d).
C24_LimbByLimb ==
    (op = "div" /\ b.l3 = 0 /\ b.l2 = 0 /\ b.l1 = 0 /\ b.l0 # 0) =>
        /\ res.st = "ok" /\ res.path = "u64" /\ Len(res.tr) = 4
        /\ \A k \in 1..4 :
             /\ res.tr[k].i = 4 - k
             /\ res.tr[k].limb = LimbAt(a, 4 - k)
             /\ res.tr[k].n_hi = (IF k = 1 THEN 0 ELSE res.tr[k - 1].r)
             /\ res.tr[k].n_hi < b.l0
             /\ res.tr[k].q = (res.tr[k].n_hi * B + res.tr[k].limb) \div b.l0
             /\ res.tr[k].r = (res.tr[k].n_hi * B + res.tr[k].limb) % b.l0
             /\ LimbAt(res.q, 4 - k) = res.tr[k].q
        /\ Val(res.q) = Val(a) \div b.l0

\* the case of C24: the div instruction run with a non-zero remainder carried
\* into every step after the first
C24_Witness ==
    /\ op = "div" /\ b.l3 = 0 /\ b.l2 = 0 /\ b.l1 = 0 /\ b.l0 > 1
    /\ build.x86 /\ res.st = "ok" /\ Len(res.tr) = 4
    /\ res.tr[2].n_hi # 0 /\ res.tr[3].n_hi # 0 /\ res.tr[4].n_hi # 0

\* the exact sums of the columns of a * b, the carry of the column below
\* included
ColSum0 == a.l0 * b.l0
ColSum1 == ColSum0 \div B + a.l0 * b.l1 + a.l1 * b.l0
ColSum2 == ColSum1 \div B + a.l0 * b.l2 + a.l1 * b.l1 + a.l2 * b.l0
ColSum3 == ColSum2 \div B + a.l0 * b.l3 + a.l1 * b.l2 + a.l2 * b.l1 + a.l3 * b.l0

C26_SignedIsUnsigned ==
    op \in {"bothadd", "bothsub", "bothmul"} => res.s = res.u

\* the case of C26: a negative and a non-negative operand whose sum carries
\* through every limb
C26_Witness ==
    /\ op = "bothadd"
    /\ is_negative(a) /\ ~is_negative(b)
    /\ a.l0 + b.l0 >= B /\ a.l1 + b.l1 + 1 >= B /\ a.l2 + b.l2 + 1 >= B /\ a.l3 + b.l3 + 1 >= B
    /\ res.s = res.u /\ SVal(res.s) = SVal(a) + SVal(b)

\* the value of a remainder window of seven limbs
Val7(rem) ==
    rem[0] + rem[1] * B + rem[2] * B ^ 2 + rem[3] * B ^ 3 + rem[4] * B ^ 4
      + rem[5] * B ^ 5 + rem[6] * B ^ 6

\* C27: normalization in the Knuth paths loses no information: with shift =
\* leading zeros of the divisor's top non-zero limb (0..63), the normalized
\* divisor equals d * 2^shift exactly and its top limb has bit 63 set, the
\* 7-limb result of shl_wide equals a * 2^shift exactly, and the limb of the
\* shifted dividend above the divisor's top limb is strictly less than the
\* normalized divisor's top limb at the first digit.
C27_NormalizationExact ==
    /\ op = "normalize" =>
         /\ res.shift \in 0..(LimbBits - 1)
         /\ Val(res.d_norm) = Val(b) * 2 ^ res.shift
         /\ LimbAt(res.d_norm, res.n - 1) >= HalfLimb
         /\ Val7(res.rem) = Val(a) * 2 ^ res.shift
         /\ res.rem[4] < LimbAt(res.d_norm, res.n - 1)
    /\ (op = "div" /\ res.path \in {"knuth64", "knuth128"}) =>
         /\ res.tr[1].dn = Val(b) * 2 ^ leading_zeros64(IF b.l3 # 0 THEN b.l3 ELSE b.l2)
         /\ res.tr[1].win =
              (Val(a) * 2 ^ leading_zeros64(IF b.l3 # 0 THEN b.l3 ELSE b.l2))
                \div (IF b.l3 # 0 THEN 1 ELSE B)
         /\ res.tr[1].win < res.tr[1].dn * B

\* the case of C27: a shift that moves bits of the dividend's top limb into
\* the fifth limb of the window
C27_Witness ==
    /\ op = "normalize"
    /\ res.shift > 0 /\ res.rem[4] # 0
    /\ a.l0 # 0 /\ res.n = 3
    /\ Val7(res.rem) = Val(a) * 2 ^ res.shift

\* C28: no shift by an amount equal to or larger than the operand's bit width
\* is evaluated during a Uint256 division with a non-zero divisor: in
\* div_u256_by_u128 the expression lo >> (128 - shift) is only reached with
\* shift >= 1, and in shl_wide and shl_u32 the expression >> (64 - bits) is
\* only reached with bits >= 1.
C28_NoFullWidthShift ==
    op = "divshifts" =>
        /\ \A s \in res.u128_shift : s >= 1
        /\ \A s \in res.bits : s >= 1

\* C29: the trial digit never underflows: in every correction loop and in
\* every add-back branch of the division qhat -= 1 is executed only when
\* qhat >= 1, and the wrapping_sub that computes rhat never actually wraps,
\* for every dividend and non-zero divisor reaching those paths.
C29_NoUnderflow ==
    /\ (op = "div" /\ res.path \in {"knuth64", "knuth128", "u128"}) =>
          \A i \in 1..Len(res.tr) : ~res.tr[i].under /\ ~res.tr[i].wrapped
    /\ op = "loop" => ~res.under /\ ~res.wrapped

\* the case of C29: a digit the loop left at 1, one too large, taken to 0 by
\* the qhat -= 1 of the add-back branch
C29_Witness ==
    /\ op = "div" /\ res.path \in {"knuth64", "knuth128"} /\ res.st = "ok"
    /\ \E i \in 1..Len(res.tr) :
         /\ res.tr[i].borrow /\ res.tr[i].qloop = 1 /\ res.tr[i].qhat = 0
         /\ ~res.tr[i].under /\ ~res.tr[i].wrapped
\* C30: in sub_mul_limbs and sub_mul_limbs_3, for every qhat, divisor and
\* remainder window, the u128 expression qhat * d_limb + borrow never
\* overflows 128 bits and the running borrow is at most 2^64 - 1, so the cast
\* `borrow as u64` subtracted from the top window limb loses no bits.
C30_BorrowFits ==
    op \in {"submul", "submul3"} => (~res.ovf /\ res.maxb <= MaxLimb)

\* the case of C30: the running borrow reaches 2^64 - 1
C30_Witness ==
    /\ op = "submul"
    /\ a.qhat = MaxLimb /\ b.l0 = MaxLimb /\ b.l1 = MaxLimb
    /\ res.maxb = MaxLimb /\ ~res.ovf /\ res.borrow

====
